---------------------------- MODULE Spec2Model ----------------------------
(***************************************************************************)
(* A model of the CleanQ descriptor queues (cleanq-linux):                 *)
(*   - the region pool (region_pool.c) and the frontend                    *)
(*     (queue_interface.c),                                                *)
(*   - the loopback backend (loopback_queue.c),                            *)
(*   - the FF backend (ffq_impl.h, ff_queue.c),                            *)
(*   - the IPC backend (ipc_queue.c),                                      *)
(*   - the debug wrapper (debug_queue.c) with its slab-allocated lists.    *)
(*                                                                         *)
(* Every subsystem has its own specification over the shared variables;    *)
(* a specification leaves the variables of the other subsystems unchanged. *)
(***************************************************************************)
EXTENDS Integers, Sequences, FiniteSets, Bags, TLC

VARIABLES
    pool,      \* [Endpoints -> region pool]            struct region_pool
    lq,        \* the loopback queue                     struct cleanq_loopbackq
    enqOk,     \* ghost: bag of descriptors whose enqueue returned OK
    deqOk,     \* ghost: bag of descriptors whose dequeue returned OK
    res,       \* ghost: the last frontend call, its arguments and its result
    nops,      \* ghost: number of frontend calls made so far
    cyc,       \* ghost: the call before the last one and the pool it started from
    ff,        \* the FF channel, its two endpoints and their calls in progress
    ipc,       \* the IPC channel, its two endpoints and their calls in progress
    dbg        \* the debug wrappers                    struct cleanq_debugq

vars == <<pool, lq, enqOk, deqOk, res, nops, cyc, ff, ipc, dbg>>

(***************************************************************************)
(* Bounds of the model.                                                    *)
(***************************************************************************)
\* genoffset_t is modelled as an unsigned integer of OffsetBits bits
OffsetBits == 5
\* number of frontend calls explored after the initial state
MaxOps == 4

RECURSIVE Pow2(_)
Pow2(n) == IF n = 0 THEN 1 ELSE 2 * Pow2(n - 1)

\* 2^w for the w-bit genoffset_t
OffMod == Pow2(OffsetBits)
\* the largest genoffset_t
OffMax == OffMod - 1

\* unsigned w-bit addition and subtraction, as C computes them
AddW(a, b) == (a + b) % OffMod
SubW(a, b) == (a - b + OffMod) % OffMod

(***************************************************************************)
(* Error values (cleanq.h, errval_t).                                      *)
(***************************************************************************)
ERR_OK                    == "CLEANQ_ERR_OK"
ERR_BUFFER_ALREADY_IN_USE == "CLEANQ_ERR_BUFFER_ALREADY_IN_USE"
ERR_INVALID_BUFFER_ARGS   == "CLEANQ_ERR_INVALID_BUFFER_ARGS"
ERR_INVALID_REGION_ID     == "CLEANQ_ERR_INVALID_REGION_ID"
ERR_REGION_DESTROY        == "CLEANQ_ERR_REGION_DESTROY"
ERR_INVALID_REGION_ARGS   == "CLEANQ_ERR_INVALID_REGION_ARGS"
ERR_QUEUE_EMPTY           == "CLEANQ_ERR_QUEUE_EMPTY"
ERR_QUEUE_FULL            == "CLEANQ_ERR_QUEUE_FULL"
ERR_MALLOC_FAIL           == "CLEANQ_ERR_MALLOC_FAIL"
ERR_BUFFER_NOT_IN_USE     == "CLEANQ_ERR_BUFFER_NOT_IN_USE"

err_is_fail(err) == err # ERR_OK

Endpoints == {"creator", "joiner"}

(***************************************************************************)
(* Buffer descriptors and capabilities.                                    *)
(***************************************************************************)
Desc(rid, offset, length, valid_data, valid_length, flags) ==
    [rid |-> rid, offset |-> offset, length |-> length,
     valid_data |-> valid_data, valid_length |-> valid_length, flags |-> flags]

\* the zeroed descriptor of calloc'ed memory
ZeroDesc == Desc(0, 0, 0, 0, 0, 0)

Cap(vaddr, paddr, len) == [vaddr |-> vaddr, paddr |-> paddr, len |-> len]

(***************************************************************************)
(* The region pool.                                                        *)
(***************************************************************************)
INIT_POOL_SIZE == 16

\* an empty slot of the pool table (a NULL struct region pointer)
NULLREGION == [id |-> 0 - 1, base_addr |-> 0, len |-> 0]

\* x & (size - 1) for a size that is a power of two
MaskIdx(x, size) == x % size

\* region_pool_init: region_offset is rand() >> 12, here the parameter
region_pool_init(region_offset) ==
    [size |-> INIT_POOL_SIZE, num_regions |-> 0, region_offset |-> region_offset,
     last_offset |-> 0, pool |-> [i \in 0..(INIT_POOL_SIZE - 1) |-> NULLREGION]]

\* region_pool_grow: a table of twice the size, every region rehashed
region_pool_grow(p) ==
    LET new_size == p.size * 2
        moved(j) == {i \in 0..(p.size - 1) :
                        /\ p.pool[i] # NULLREGION
                        /\ MaskIdx(p.pool[i].id, new_size) = j}
    IN  [p EXCEPT !.size = new_size,
                  !.last_offset = 0,
                  !.pool = [j \in 0..(new_size - 1) |->
                              IF moved(j) = {} THEN NULLREGION
                              ELSE p.pool[CHOOSE i \in moved(j) : TRUE]]]

\* the overlap test of region_pool_add_region, in w-bit arithmetic
RegionsClash(tmp, cap) ==
    \/ tmp.base_addr = cap.paddr
    \/ ~ (\/ AddW(cap.paddr, cap.len) <= tmp.base_addr
          \/ AddW(tmp.base_addr, tmp.len) <= cap.paddr)

\* the slot search of region_pool_add_region: the first offset >= offset
\* whose slot is empty
RECURSIVE FindSlotOffset(_, _)
FindSlotOffset(p, offset) ==
    IF p.pool[MaskIdx(p.region_offset + p.num_regions + offset, p.size)] = NULLREGION
    THEN offset
    ELSE FindSlotOffset(p, offset + 1)

\* region_pool_add_region: [pool, err, rid]
region_pool_add_region(p, cap) ==
    IF \E i \in 0..(p.size - 1) :
          p.pool[i] # NULLREGION /\ RegionsClash(p.pool[i], cap)
    THEN [pool |-> p, err |-> ERR_INVALID_REGION_ARGS, rid |-> 0]
    ELSE LET g  == IF ~ (p.num_regions < p.size) THEN region_pool_grow(p) ELSE p
             p1 == [g EXCEPT !.num_regions = g.num_regions + 1]
             offset == FindSlotOffset(p1, p1.last_offset)
             id == p1.region_offset + p1.num_regions + offset
             region == [id |-> id, base_addr |-> cap.paddr, len |-> cap.len]
         IN  [pool |-> [p1 EXCEPT !.last_offset = offset,
                                  !.pool[MaskIdx(id, p1.size)] = region],
              err |-> ERR_OK, rid |-> id]

\* region_pool_add_region_with_id: [pool, err]
region_pool_add_region_with_id(p, cap, region_id) ==
    LET g == IF ~ (p.num_regions < p.size) THEN region_pool_grow(p) ELSE p
    IN  IF g.pool[MaskIdx(region_id, g.size)] # NULLREGION
        THEN [pool |-> g, err |-> ERR_INVALID_REGION_ID]
        ELSE [pool |-> [g EXCEPT !.pool[MaskIdx(region_id, g.size)] =
                                    [id |-> region_id, base_addr |-> cap.paddr,
                                     len |-> cap.len],
                                 !.num_regions = g.num_regions + 1],
              err |-> ERR_OK]

\* region_pool_remove_region: [pool, err]
region_pool_remove_region(p, region_id) ==
    IF p.pool[MaskIdx(region_id, p.size)] = NULLREGION
    THEN [pool |-> p, err |-> ERR_INVALID_REGION_ID]
    ELSE [pool |-> [p EXCEPT !.pool[MaskIdx(region_id, p.size)] = NULLREGION,
                             !.num_regions = p.num_regions - 1],
          err |-> ERR_OK]

\* region_pool_buffer_check_bounds
region_pool_buffer_check_bounds(p, region_id, offset, length, valid_data, valid_length) ==
    LET region == p.pool[MaskIdx(region_id, p.size)]
    IN  IF region = NULLREGION THEN FALSE
        ELSE ~ (\/ AddW(length, offset) > region.len
                \/ AddW(valid_data, valid_length) > length)

\* the regions a pool holds
PoolRegions(p) == {p.pool[i] : i \in 0..(p.size - 1)} \ {NULLREGION}

(***************************************************************************)
(* The loopback backend.                                                   *)
(***************************************************************************)
LOOPBACK_QUEUE_SIZE == 64

\* loopback_queue_create
loopback_queue_create ==
    [queue |-> [i \in 0..(LOOPBACK_QUEUE_SIZE - 1) |-> ZeroDesc],
     head |-> 0, tail |-> 0, num_ele |-> 0]

\* loopback_enqueue: [lq, err]
loopback_enqueue(q, d) ==
    IF q.num_ele = LOOPBACK_QUEUE_SIZE
    THEN [lq |-> q, err |-> ERR_QUEUE_FULL]
    ELSE [lq |-> [q EXCEPT !.queue[q.head] = d,
                           !.head = (q.head + 1) % LOOPBACK_QUEUE_SIZE,
                           !.num_ele = q.num_ele + 1],
          err |-> ERR_OK]

\* a loopback_dequeue that copies the slot at head instead of the slot at tail
LoopbackTailDesc_Mutant(q) == q.queue[q.head]

\* the descriptor loopback_dequeue copies out
LoopbackTailDesc(q) == q.queue[q.tail]

\* loopback_dequeue: [lq, err, d]
loopback_dequeue(q) ==
    IF q.num_ele = 0
    THEN [lq |-> q, err |-> ERR_QUEUE_EMPTY, d |-> ZeroDesc]
    ELSE [lq |-> [q EXCEPT !.tail = (q.tail + 1) % LOOPBACK_QUEUE_SIZE,
                           !.num_ele = q.num_ele - 1],
          err |-> ERR_OK, d |-> LoopbackTailDesc(q)]

\* the descriptors in the loopback queue, oldest first
LoopbackContent(q) ==
    [i \in 1..q.num_ele |-> q.queue[(q.tail + i - 1) % LOOPBACK_QUEUE_SIZE]]


(***************************************************************************)
(* The frontend (queue_interface.c): the checks and the pool updates that   *)
(* bracket the backend call.                                               *)
(***************************************************************************)
\* the bounds check cleanq_enqueue and cleanq_dequeue make on a descriptor
\* the region of pool p with id rid, as a set of none or one
RegionsWithId(p, rid) == {r \in PoolRegions(p) : r.id = rid}

CheckDesc(p, d) ==
    region_pool_buffer_check_bounds(p, d.rid, d.offset, d.length, d.valid_data,
                                    d.valid_length)

\* cleanq_enqueue: the error returned when the backend's enq would return
\* backend_err; the backend is invoked iff EnqueueInvokesBackend
EnqueueInvokesBackend(p, d) == CheckDesc(p, d)
cleanq_enqueue_err(p, d, backend_err) ==
    IF ~ EnqueueInvokesBackend(p, d) THEN ERR_INVALID_BUFFER_ARGS ELSE backend_err

\* a cleanq_dequeue that does not check the bounds of what it dequeued
cleanq_dequeue_err_Mutant(p, d, backend_err) == backend_err

\* cleanq_dequeue: the error returned when the backend's deq returned
\* backend_err and descriptor d
cleanq_dequeue_err(p, d, backend_err) ==
    IF err_is_fail(backend_err) THEN backend_err
    ELSE IF ~ CheckDesc(p, d) THEN ERR_INVALID_BUFFER_ARGS
    ELSE ERR_OK

\* the record of a frontend call
Call(op, err, d, cap, rid) == [op |-> op, err |-> err, d |-> d, cap |-> cap, rid |-> rid]
NoCap == Cap(0, 0, 0)
NoCall == Call("none", ERR_OK, ZeroDesc, NoCap, 0)

(***************************************************************************)
(* Specification SpecLoopback: one endpoint, the frontend on a loopback     *)
(* queue.                                                                  *)
(***************************************************************************)
\* a queue that has not been created
NoQueue == <<>>

\* no call before the last one
NoCycle == [prev |-> NoCall, snap |-> region_pool_init(0), before |-> region_pool_init(0)]

\* the endpoint that owns the loopback queue
LbE == "creator"

\* rand() >> 12 of region_pool_init
RegionOffsets == {0, 13}

\* capabilities offered to register
LbCaps == {Cap(0, 0, 4), Cap(1, 4, 2)}

\* region ids offered to enqueue and deregister: the registered ones, and for
\* each of them the id 16 higher, which selects the same slot of the table
RidInputs(p) ==
    {r.id : r \in PoolRegions(p)} \cup {r.id + INIT_POOL_SIZE : r \in PoolRegions(p)}

\* descriptors offered to enqueue: <<offset, length, valid_length, flags>> for
\* every offered region id, inside and outside of the regions
DescShapes == {<<0, 2, 1, 0>>, <<2, 2, 2, 1>>, <<2, OffMax, 3, 0>>}
DescInputs(p) ==
    {Desc(rid, sh[1], sh[2], 0, sh[3], sh[4]) : rid \in RidInputs(p), sh \in DescShapes}

\* the region and the descriptor the initial states are built with
LbCap0 == Cap(0, 0, 4)
LbDesc0(rid) == Desc(rid, 0, 2, 0, 2, 0)

\* n times loopback_enqueue of d
RECURSIVE LbFill(_, _, _)
LbFill(q, d, n) ==
    IF q.num_ele >= 0 /\ n = 0 THEN q ELSE LbFill(loopback_enqueue(q, d).lq, d, n - 1)

\* t times loopback_enqueue of d followed by loopback_dequeue
RECURSIVE LbRounds(_, _, _)
LbRounds(q, d, t) ==
    IF q.num_ele >= 0 /\ t = 0 THEN q
    ELSE LbRounds(loopback_dequeue(loopback_enqueue(q, d).lq).lq, d, t - 1)

\* a bag holding n copies of d
BagOf(d, n) == IF n = 0 THEN EmptyBag ELSE [x \in {d} |-> n]

\* the runs the initial states are reached by: <<t, n>> is register(LbCap0),
\* t rounds of enqueue and dequeue, then n enqueues
LbInitRuns == {<<0, 0>>, <<LOOPBACK_QUEUE_SIZE - 1, 0>>, <<2, LOOPBACK_QUEUE_SIZE - 2>>}

LbInit ==
    \E ro \in RegionOffsets, run \in LbInitRuns, registered \in BOOLEAN :
        LET p0 == region_pool_init(ro)
            r  == region_pool_add_region(p0, LbCap0)
            d0 == LbDesc0(r.rid)
        IN  /\ registered \/ run = <<0, 0>>
            /\ pool = [e \in Endpoints |-> IF e = LbE /\ registered THEN r.pool ELSE p0]
            /\ lq = IF registered
                    THEN LbFill(LbRounds(loopback_queue_create, d0, run[1]), d0, run[2])
                    ELSE loopback_queue_create
            /\ enqOk = IF registered THEN BagOf(d0, run[1] + run[2]) ELSE EmptyBag
            /\ deqOk = IF registered THEN BagOf(d0, run[1]) ELSE EmptyBag
            /\ res = NoCall
            /\ nops = 0
            /\ cyc = NoCycle
            /\ ff = NoQueue /\ ipc = NoQueue /\ dbg = NoQueue

\* cleanq_register on the loopback queue (loopback_register returns OK)
LbRegister(cap) ==
    LET r == region_pool_add_region(pool[LbE], cap)
    IN  /\ nops < MaxOps
        /\ pool' = [pool EXCEPT ![LbE] = r.pool]
        /\ res' = Call("register", r.err, ZeroDesc, cap, r.rid)
        /\ nops' = nops + 1
        /\ UNCHANGED <<lq, enqOk, deqOk, cyc, ff, ipc, dbg>>

\* cleanq_deregister on the loopback queue (loopback_deregister returns OK)
LbDeregister(rid) ==
    LET r == region_pool_remove_region(pool[LbE], rid)
    IN  /\ nops < MaxOps
        /\ pool' = [pool EXCEPT ![LbE] = r.pool]
        /\ res' = Call("deregister", r.err, ZeroDesc, NoCap, rid)
        /\ nops' = nops + 1
        /\ UNCHANGED <<lq, enqOk, deqOk, cyc, ff, ipc, dbg>>

\* cleanq_enqueue on the loopback queue
LbEnqueue(d) ==
    LET b   == loopback_enqueue(lq, d)
        err == cleanq_enqueue_err(pool[LbE], d, b.err)
    IN  /\ nops < MaxOps
        /\ lq' = IF EnqueueInvokesBackend(pool[LbE], d) THEN b.lq ELSE lq
        /\ enqOk' = IF err = ERR_OK THEN enqOk (+) BagOf(d, 1) ELSE enqOk
        /\ res' = Call("enqueue", err, d, NoCap, d.rid)
        /\ nops' = nops + 1
        /\ UNCHANGED <<pool, deqOk, cyc, ff, ipc, dbg>>

\* cleanq_dequeue on the loopback queue
LbDequeue ==
    LET b   == loopback_dequeue(lq)
        err == cleanq_dequeue_err(pool[LbE], b.d, b.err)
    IN  /\ nops < MaxOps
        /\ lq' = b.lq
        /\ deqOk' = IF err = ERR_OK THEN deqOk (+) BagOf(b.d, 1) ELSE deqOk
        /\ res' = Call("dequeue", err, b.d, NoCap, b.d.rid)
        /\ nops' = nops + 1
        /\ UNCHANGED <<pool, enqOk, cyc, ff, ipc, dbg>>

LbNext ==
    \/ \E cap \in LbCaps : LbRegister(cap)
    \/ \E rid \in RidInputs(pool[LbE]) : LbDeregister(rid)
    \/ \E d \in DescInputs(pool[LbE]) : LbEnqueue(d)
    \/ LbDequeue

SpecLoopback == LbInit /\ [][LbNext]_vars

\* C1: on a loopback queue the bag of descriptors returned with OK by
\* cleanq_dequeue is always a sub-bag of the bag of descriptors cleanq_enqueue
\* accepted with OK, and once as many dequeues as enqueues have succeeded the
\* two bags are equal: no descriptor is lost, duplicated or altered.
C1_RoundTrip ==
    /\ deqOk \sqsubseteq enqOk
    /\ BagCardinality(deqOk) = BagCardinality(enqOk) => deqOk = enqOk

\* C1 witness: after a wrap of the ring, descriptors enqueued by calls of this
\* run have all been dequeued again
C1_Witness ==
    /\ res.op = "dequeue" /\ res.err = ERR_OK
    /\ BagCardinality(enqOk) > LOOPBACK_QUEUE_SIZE
    /\ Cardinality(BagToSet(enqOk)) > 1
    /\ deqOk = enqOk

\* rid names a region of the pool and the buffer lies inside it, computed over
\* the integers (no wrap-around)
InBoundsMath(p, d) ==
    \E r \in PoolRegions(p) :
        /\ r.id = d.rid
        /\ d.offset + d.length <= r.len
        /\ d.valid_data + d.valid_length <= d.length

\* C3: cleanq_enqueue returns OK only if rid is registered in the pool and
\* offset+length <= region.len and valid_data+valid_length <= length; whenever
\* that condition is violated it returns INVALID_BUFFER_ARGS and the backend
\* enqueue is not invoked, so the channel state is unchanged.
C3_EnqueueBoundsSafety ==
    [][(res'.op = "enqueue" /\ nops' # nops /\ ~ InBoundsMath(pool[LbE], res'.d))
          => (res'.err = ERR_INVALID_BUFFER_ARGS /\ lq' = lq)]_vars

\* C3 witness: an enqueue of a buffer that is not inside a registered region
\* has returned OK and the descriptor is in the ring
C3_Witness ==
    /\ res.op = "enqueue" /\ res.err = ERR_OK
    /\ ~ InBoundsMath(pool[LbE], res.d)
    /\ lq.num_ele > 0
    /\ lq.queue[(lq.head + LOOPBACK_QUEUE_SIZE - 1) % LOOPBACK_QUEUE_SIZE] = res.d


(***************************************************************************)
(* The region pool behind the frontend's register and deregister.          *)
(***************************************************************************)
\* cleanq_register: add the region to the pool, then call the backend
cleanq_register(p, cap, backend_err) ==
    LET r == region_pool_add_region(p, cap)
    IN  [pool |-> r.pool, rid |-> r.rid, invoked |-> ~ err_is_fail(r.err),
         err |-> IF err_is_fail(r.err) THEN r.err ELSE backend_err]

\* cleanq_deregister: remove the region from the pool, then call the backend
cleanq_deregister(p, rid, backend_err) ==
    LET r == region_pool_remove_region(p, rid)
    IN  [pool |-> r.pool, invoked |-> ~ err_is_fail(r.err),
         err |-> IF err_is_fail(r.err) THEN r.err ELSE backend_err]

\* the regions a pool is filled with before the calls explored: n regions of
\* one byte at paddr 0 .. n-1
RECURSIVE PoolFill(_, _)
PoolFill(p, n) ==
    IF p.num_regions >= 0 /\ n = 0 THEN p
    ELSE region_pool_add_region(PoolFill(p, n - 1), Cap(0, n - 1, 1)).pool

PoolFills == {0, INIT_POOL_SIZE - 1, INIT_POOL_SIZE}

\* the regions registered by the calls explored; the last two end at the top
\* of the address space
PoolCaps == {Cap(0, INIT_POOL_SIZE, 2), Cap(0, INIT_POOL_SIZE + 1, 2),
             Cap(0, OffMod - 2, 2), Cap(0, OffMax, 1)}

\* the ids deregister is called with: the regions above the filling, and for
\* each of them the id INIT_POOL_SIZE above it
PoolRidInputs(p) ==
    LET own == {r.id : r \in {x \in PoolRegions(p) : x.base_addr >= INIT_POOL_SIZE - 1}}
    IN  own \cup {id + INIT_POOL_SIZE : id \in own}

PoolInit ==
    \E ro \in RegionOffsets, n \in PoolFills :
        /\ pool = [e \in Endpoints |->
                      IF e = LbE THEN PoolFill(region_pool_init(ro), n)
                      ELSE region_pool_init(ro)]
        /\ lq = loopback_queue_create
        /\ enqOk = EmptyBag
        /\ deqOk = EmptyBag
        /\ res = NoCall
        /\ nops = 0
        /\ cyc = NoCycle
        /\ ff = NoQueue /\ ipc = NoQueue /\ dbg = NoQueue

\* cleanq_register on a queue whose backend's register returns OK
PoolRegister(cap) ==
    LET r == cleanq_register(pool[LbE], cap, ERR_OK)
    IN  /\ nops < MaxOps
        /\ pool' = [pool EXCEPT ![LbE] = r.pool]
        /\ res' = Call("register", r.err, ZeroDesc, cap, r.rid)
        /\ cyc' = [prev |-> res, snap |-> cyc.before, before |-> pool[LbE]]
        /\ nops' = nops + 1
        /\ UNCHANGED <<lq, enqOk, deqOk, ff, ipc, dbg>>

\* what the capability variable of the caller holds after
\* region_pool_remove_region(pool, region_id, &cap) when it held cap before:
\* the function assigns region->cap to its own parameter and writes nothing
\* through it
RemoveRegionCapOut(p, region_id, cap) == cap

\* what the capability variable of the caller holds before cleanq_deregister
\* of rid: zeroes, or the capability the region was registered with, as in
\* the tests (every capability registered here has vaddr 0)
RegisteredCap(p, rid) ==
    LET r == CHOOSE x \in RegionsWithId(p, rid) : TRUE
    IN  Cap(0, r.base_addr, r.len)
PoolCapVars(p, rid) ==
    {NoCap} \cup (IF RegionsWithId(p, rid) = {} THEN {} ELSE {RegisteredCap(p, rid)})

\* cleanq_deregister(q, rid, &cap) on a queue whose backend's deregister
\* returns OK; cap is what the caller's variable holds before the call
PoolDeregister(rid, cap) ==
    LET r == cleanq_deregister(pool[LbE], rid, ERR_OK)
    IN  /\ nops < MaxOps
        /\ pool' = [pool EXCEPT ![LbE] = r.pool]
        /\ res' = Call("deregister", r.err, ZeroDesc,
                       RemoveRegionCapOut(pool[LbE], rid, cap), rid)
        /\ cyc' = [prev |-> res, snap |-> cyc.before, before |-> pool[LbE]]
        /\ nops' = nops + 1
        /\ UNCHANGED <<lq, enqOk, deqOk, ff, ipc, dbg>>

\* the descriptors the backend of the queue delivers to cleanq_dequeue: of a
\* registered id or of the id INIT_POOL_SIZE above it, inside a region of
\* length 2, beyond its end, and with sums that pass 2^w
PoolExtents == {<<0, 2>>, <<1, 2>>, <<OffMax, 2>>}
PoolDescInputs(p) ==
    {Desc(rid, b[1], b[2], v[1], v[2], 0) :
        rid \in PoolRidInputs(p), b \in PoolExtents, v \in PoolExtents}

\* cleanq_dequeue on a queue whose backend's deq returns backend_err and
\* delivers descriptor d. The call leaves the pool as it is: the calls that
\* follow it are explored from the state before it
PoolDequeue(d, backend_err) ==
    /\ nops < MaxOps
    /\ res' = Call("dequeue", cleanq_dequeue_err(pool[LbE], d, backend_err), d, NoCap, d.rid)
    /\ cyc' = [prev |-> res, snap |-> cyc.before, before |-> pool[LbE],
               backend_err |-> backend_err]
    /\ nops' = MaxOps
    /\ UNCHANGED <<pool, lq, enqOk, deqOk, ff, ipc, dbg>>

PoolNext ==
    \/ \E cap \in PoolCaps : PoolRegister(cap)
    \/ \E rid \in PoolRidInputs(pool[LbE]) :
          \E cap \in PoolCapVars(pool[LbE], rid) : PoolDeregister(rid, cap)
    \/ \E d \in PoolDescInputs(pool[LbE]), err \in {ERR_OK, ERR_QUEUE_EMPTY} :
          PoolDequeue(d, err)

SpecPool == PoolInit /\ [][PoolNext]_vars


\* the paddr bytes of a region, over the integers
RegionBytes(base, len) == {b \in 0..OffMax : base <= b /\ b < base + len}

\* no two regions of the pool share a paddr byte
NoSharedByte(p) ==
    \A r1, r2 \in PoolRegions(p) :
        r1 # r2 => RegionBytes(r1.base_addr, r1.len) \cap RegionBytes(r2.base_addr, r2.len) = {}

\* cap overlaps a region of the pool or starts at the paddr of one
ClashMath(p, cap) ==
    \E r \in PoolRegions(p) :
        \/ r.base_addr = cap.paddr
        \/ RegionBytes(r.base_addr, r.len) \cap RegionBytes(cap.paddr, cap.len) # {}

\* C7: after any sequence of register and deregister operations no two
\* regions of the pool share a paddr byte, and a register whose
\* [paddr, paddr+len) overlaps a registered region, or whose paddr equals a
\* registered region's paddr, is rejected with INVALID_REGION_ARGS and leaves
\* the pool unchanged.
C7_NonOverlap ==
    [][/\ NoSharedByte(pool'[LbE])
       /\ (res'.op = "register" /\ nops' # nops /\ ClashMath(pool[LbE], res'.cap))
             => (res'.err = ERR_INVALID_REGION_ARGS /\ pool' = pool)]_vars

\* C7 witness: a register returned OK and its region shares a byte with a
\* region that was registered before
C7_Witness ==
    /\ res.op = "register" /\ res.err = ERR_OK
    /\ \E r \in PoolRegions(pool[LbE]) : r.id = res.rid /\ r.base_addr = res.cap.paddr
    /\ ClashMath(cyc.before, res.cap)
    /\ ~ NoSharedByte(pool[LbE])

\* the ids bounds_check is asked about: every id up to the largest id of a
\* region and INIT_POOL_SIZE beyond it
ObsRids(p, q) ==
    LET ids == {r.id : r \in PoolRegions(p) \cup PoolRegions(q)} \cup {0}
        top == CHOOSE m \in ids : \A i \in ids : i <= m
    IN  0..(top + INIT_POOL_SIZE)

\* what a caller can observe of a pool: the registered ids and extents, the
\* number of regions, and the answers of bounds_check for a one-byte buffer
PoolObs(p, rids) ==
    [regions     |-> PoolRegions(p),
     num_regions |-> p.num_regions,
     answers     |-> [rid \in rids |-> region_pool_buffer_check_bounds(p, rid, 0, 1, 0, 1)]]

\* the last two calls were register(cap), returning OK, and deregister of the
\* id it returned
CycleDone ==
    /\ cyc.prev.op = "register" /\ cyc.prev.err = ERR_OK
    /\ res.op = "deregister" /\ res.rid = cyc.prev.rid

\* C8: register(cap) immediately followed by deregister of the returned rid
\* restores the pool to its prior state (same registered ids and extents,
\* same num_regions, same answers from bounds_check), also when the cycle is
\* repeated, and every register of a region that overlaps none and every
\* deregister in the cycle returns OK.
C8_CycleRestores ==
    /\ (res.op = "register" /\ ~ ClashMath(cyc.before, res.cap)) => res.err = ERR_OK
    /\ CycleDone =>
          /\ res.err = ERR_OK
          /\ PoolObs(pool[LbE], ObsRids(pool[LbE], cyc.snap))
               = PoolObs(cyc.snap, ObsRids(pool[LbE], cyc.snap))

\* C8 witness: a cycle is done on a full table, the table has grown, and
\* bounds_check answers differently than before the cycle
C8_Witness ==
    /\ CycleDone /\ res.err = ERR_OK
    /\ cyc.snap.num_regions = cyc.snap.size
    /\ pool[LbE].size = 2 * cyc.snap.size
    /\ PoolRegions(pool[LbE]) = PoolRegions(cyc.snap)
    /\ pool[LbE].num_regions = cyc.snap.num_regions
    /\ \E rid \in ObsRids(pool[LbE], cyc.snap) :
          /\ region_pool_buffer_check_bounds(cyc.snap, rid, 0, 1, 0, 1)
          /\ ~ region_pool_buffer_check_bounds(pool[LbE], rid, 0, 1, 0, 1)


\* descriptor d names a region of pool p and lies inside it, over the
\* integers
DescValid(p, d) ==
    \E r \in RegionsWithId(p, d.rid) :
        /\ d.offset + d.length <= r.len
        /\ d.valid_data + d.valid_length <= d.length

\* C21: cleanq_dequeue returns OK only if the rid of the returned descriptor
\* is registered in the pool of the endpoint, offset + length <= region.length
\* and valid_data + valid_length <= length; a descriptor delivered by the
\* backend that violates this is reported as INVALID_BUFFER_ARGS, and the
\* errors of the backend such as QUEUE_EMPTY are returned unchanged.
C21_DequeueValidates ==
    res.op = "dequeue" =>
        IF err_is_fail(cyc.backend_err)
        THEN res.err = cyc.backend_err
        ELSE /\ res.err = ERR_OK => DescValid(pool[LbE], res.d)
             /\ ~ DescValid(pool[LbE], res.d) => res.err = ERR_INVALID_BUFFER_ARGS

\* C21 witness: the backend has delivered a descriptor whose rid is the id of
\* no region of the pool, and cleanq_dequeue has returned OK
C21_Witness ==
    /\ res.op = "dequeue" /\ res.err = ERR_OK
    /\ cyc.backend_err = ERR_OK
    /\ RegionsWithId(pool[LbE], res.rid) = {}
    /\ res.d.offset + res.d.length <= 2
    /\ res.d.valid_data + res.d.valid_length <= res.d.length

\* region r is registered in pool p: the pool holds it under its id,
\* bounds_check accepts the buffer that is the whole of it and no longer one,
\* and remove_region of its id returns OK and takes it, and only it, out
StillRegistered(p, r) ==
    /\ RegionsWithId(p, r.id) = {r}
    /\ region_pool_buffer_check_bounds(p, r.id, 0, r.len, 0, r.len)
    /\ ~ region_pool_buffer_check_bounds(p, r.id, 0, r.len + 1, 0, r.len)
    /\ region_pool_remove_region(p, r.id).err = ERR_OK
    /\ PoolRegions(region_pool_remove_region(p, r.id).pool) = PoolRegions(p) \ {r}

\* the first growth of the table, from INIT_POOL_SIZE slots: every register
\* of a region that overlaps none and every deregister of a registered id
\* returns OK; when num_regions = size the table doubles, and after the
\* growth every region registered before is still registered with the same
\* extent
PoolFirstGrowth ==
    [][nops' # nops =>
          /\ (res'.op = "register" /\ ~ ClashMath(pool[LbE], res'.cap)) =>
                /\ res'.err = ERR_OK
                /\ pool'[LbE].size = IF pool[LbE].num_regions = pool[LbE].size
                                     THEN 2 * pool[LbE].size ELSE pool[LbE].size
                /\ pool'[LbE].num_regions = pool[LbE].num_regions + 1
                /\ \A r \in PoolRegions(pool[LbE]) : StillRegistered(pool'[LbE], r)
                /\ \E r \in PoolRegions(pool'[LbE]) \ PoolRegions(pool[LbE]) :
                      /\ r.id = res'.rid /\ r.base_addr = res'.cap.paddr
                      /\ StillRegistered(pool'[LbE], r)
          /\ (res'.op = "deregister" /\ RegionsWithId(pool[LbE], res'.rid) # {}) =>
                res'.err = ERR_OK]_vars

\* a register on a full table has returned OK, the table has doubled, and a
\* region that was registered before now lies at a slot the old table did
\* not have
PoolFirstGrowthDone ==
    /\ res.op = "register" /\ res.err = ERR_OK
    /\ cyc.before.num_regions = cyc.before.size
    /\ pool[LbE].size = 2 * cyc.before.size
    /\ pool[LbE].num_regions = cyc.before.size + 1
    /\ \E r \in PoolRegions(cyc.before) :
          /\ MaskIdx(r.id, pool[LbE].size) >= cyc.before.size
          /\ StillRegistered(pool[LbE], r)

(***************************************************************************)
(* The counters of the region pool, size and num_regions, in their width:  *)
(* what a register of a region that overlaps none and a deregister of a    *)
(* registered id do to them, for every size the table can have.            *)
(***************************************************************************)
\* uint16_t size, num_regions
POOL_SIZE_BITS == 16

\* number of calls explored after the initial state
GrowMaxOps == 4

\* uint16_t new_size = (pool->size) * 2
GrowNewSize(size) == (size * 2) % (2 ^ POOL_SIZE_BITS)

\* the counters of a pool after n registers of regions that overlap none:
\* the table has doubled whenever a register found it full
RECURSIVE GrowSizeFor(_, _)
GrowSizeFor(n, size) == IF n <= size THEN size ELSE GrowSizeFor(n, GrowNewSize(size))
GrowTable(n) == [size |-> GrowSizeFor(n, INIT_POOL_SIZE), num_regions |-> n, fault |-> FALSE]

\* the numbers of regions the initial states hold: none, or one less than a
\* size the table can have
GrowFills == {0} \cup {INIT_POOL_SIZE * (2 ^ k) - 1 : k \in 0..(POOL_SIZE_BITS - 5)}

GrowInit ==
    \E n \in GrowFills :
        /\ pool = [e \in Endpoints |-> IF e = LbE THEN GrowTable(n) ELSE GrowTable(0)]
        /\ lq = loopback_queue_create
        /\ enqOk = EmptyBag
        /\ deqOk = EmptyBag
        /\ res = NoCall
        /\ nops = 0
        /\ cyc = pool[LbE]
        /\ ff = NoQueue /\ ipc = NoQueue /\ dbg = NoQueue

\* region_pool_add_region of a region that overlaps none, on the counters.
\* When new_size is 0, calloc(0, ...) returns NULL (out is MALLOC_FAIL) or a
\* block of no slots, and the copy of the old table then writes outside of
\* it: the call faults (out is "none") or goes on with a table of size 0
\* (out is OK)
GrowRegister(out) ==
    LET t    == pool[LbE]
        full == ~ (t.num_regions < t.size)
        ns   == IF full THEN GrowNewSize(t.size) ELSE t.size
    IN  /\ nops < GrowMaxOps /\ ~ t.fault /\ t.size > 0
        /\ IF ns > 0
           THEN /\ out = ERR_OK
                /\ pool' = [pool EXCEPT ![LbE].size = ns,
                                        ![LbE].num_regions = (t.num_regions + 1) % (2 ^ POOL_SIZE_BITS)]
           ELSE pool' = [pool EXCEPT
                           ![LbE] = IF out = ERR_MALLOC_FAIL THEN t
                                    ELSE IF out = "none" THEN [t EXCEPT !.fault = TRUE]
                                    ELSE [t EXCEPT !.size = 0,
                                                   !.num_regions = (t.num_regions + 1) % (2 ^ POOL_SIZE_BITS)]]
        /\ res' = Call("register", out, ZeroDesc, NoCap, 0)
        /\ cyc' = t
        /\ nops' = nops + 1
        /\ UNCHANGED <<lq, enqOk, deqOk, ff, ipc, dbg>>

\* region_pool_remove_region of a registered id, on the counters
GrowDeregister ==
    LET t == pool[LbE]
    IN  /\ nops < GrowMaxOps /\ ~ t.fault /\ t.size > 0 /\ t.num_regions > 0
        /\ pool' = [pool EXCEPT ![LbE].num_regions = t.num_regions - 1]
        /\ res' = Call("deregister", ERR_OK, ZeroDesc, NoCap, 0)
        /\ cyc' = t
        /\ nops' = nops + 1
        /\ UNCHANGED <<lq, enqOk, deqOk, ff, ipc, dbg>>

GrowNext ==
    \/ \E out \in {ERR_OK, ERR_MALLOC_FAIL, "none"} : GrowRegister(out)
    \/ GrowDeregister

SpecGrow == GrowInit /\ [][GrowNext]_vars

\* C25: registration never fails for lack of table space: in any
\* interleaved sequence of registers of pairwise non-overlapping regions and
\* deregisters of currently registered ids, every register and every
\* deregister returns OK; when num_regions = size the table doubles, and
\* after the growth every previously registered id is still registered with
\* the same extent.
C25_NeverFull ==
    [][nops' # nops =>
          /\ res'.err = ERR_OK
          /\ res'.op = "register" =>
                /\ pool'[LbE].size = IF pool[LbE].num_regions = pool[LbE].size
                                     THEN 2 * pool[LbE].size ELSE pool[LbE].size
                /\ pool'[LbE].num_regions = pool[LbE].num_regions + 1
                /\ pool'[LbE].num_regions <= pool'[LbE].size]_vars

\* C25 witness: the table has doubled up to 2^15 slots, all of them taken,
\* and the next register has found no table to grow into and returned
\* MALLOC_FAIL
C25_Witness ==
    /\ res.op = "register" /\ res.err = ERR_MALLOC_FAIL
    /\ cyc.size = 2 ^ (POOL_SIZE_BITS - 1) /\ cyc.num_regions = cyc.size
    /\ GrowNewSize(cyc.size) = 0
    /\ pool[LbE] = cyc

\* C22: for every region registered with capability cap = (vaddr, paddr,
\* len) under id rid, a successful deregister(rid) outputs through its cap
\* parameter exactly the capability that was passed to register.
C22_DeregisterReturnsCap ==
    (/\ res.op = "deregister" /\ res.err = ERR_OK
     /\ RegionsWithId(cyc.before, res.rid) # {})
        => res.cap = RegisteredCap(cyc.before, res.rid)

\* C22 witness: a deregister of a registered region has returned OK, the
\* region is gone, and the capability variable of the caller holds the
\* zeroes it held before the call
C22_Witness ==
    /\ res.op = "deregister" /\ res.err = ERR_OK
    /\ RegionsWithId(cyc.before, res.rid) # {}
    /\ RegionsWithId(pool[LbE], res.rid) = {}
    /\ RegisteredCap(cyc.before, res.rid).len > 0
    /\ res.cap = NoCap

\* C26: region lookup is by exact id: for an id rid that is not the id of
\* any region currently in the pool (including an id that maps to the same
\* table slot as a registered region), remove_region(rid) returns
\* INVALID_REGION_ID and leaves the pool unchanged, and bounds_check(rid, ...)
\* returns false.
C26_ExactId ==
    RegionsWithId(cyc.before, res.rid) = {} =>
        /\ res.op = "deregister" =>
              res.err = ERR_INVALID_REGION_ID /\ pool[LbE] = cyc.before
        /\ (res.op = "dequeue" /\ cyc.backend_err = ERR_OK) =>
              /\ ~ CheckDesc(cyc.before, res.d)
              /\ res.err = ERR_INVALID_BUFFER_ARGS

\* C26 witness: a deregister of an id that no region of the pool has, and
\* that maps to the slot of a registered region, has returned OK and taken
\* that region out of the pool
C26_Witness ==
    /\ res.op = "deregister" /\ res.err = ERR_OK
    /\ RegionsWithId(cyc.before, res.rid) = {}
    /\ \E r \in PoolRegions(cyc.before) :
          /\ r.id # res.rid
          /\ MaskIdx(r.id, cyc.before.size) = MaskIdx(res.rid, cyc.before.size)
          /\ PoolRegions(pool[LbE]) = PoolRegions(cyc.before) \ {r}
          /\ pool[LbE].num_regions = cyc.before.num_regions - 1

\* the region the bounds check reads for descriptor d
SlotRegion(p, d) == p.pool[MaskIdx(d.rid, p.size)]

\* C27: for w-bit unsigned offset, length, valid_data and valid_length,
\* bounds_check returns false whenever the mathematical sum offset + length
\* exceeds region.len or valid_data + valid_length exceeds length, also
\* when the w-bit sum wraps around modulo 2^w to a small value.
C27_BoundsWrap ==
    (/\ res.op = "dequeue"
     /\ cyc.backend_err = ERR_OK
     /\ SlotRegion(cyc.before, res.d) # NULLREGION
     /\ \/ res.d.offset + res.d.length > SlotRegion(cyc.before, res.d).len
        \/ res.d.valid_data + res.d.valid_length > res.d.length)
    => /\ ~ CheckDesc(cyc.before, res.d)
       /\ res.err = ERR_INVALID_BUFFER_ARGS

\* C27 witness: the bounds check of a dequeue has passed a descriptor of a
\* registered region whose offset + length is beyond 2^w
C27_Witness ==
    /\ res.op = "dequeue" /\ res.err = ERR_OK
    /\ RegionsWithId(cyc.before, res.rid) # {}
    /\ res.d.offset + res.d.length >= OffMod
    /\ AddW(res.d.offset, res.d.length) <= SlotRegion(cyc.before, res.d).len
    /\ res.d.valid_data + res.d.valid_length <= res.d.length

(***************************************************************************)
(* The region pool under all of its operations: the calls of SpecPool and  *)
(* cleanq_add_region, by which a backend enters a region under the id the  *)
(* peer has chosen.                                                        *)
(***************************************************************************)
\* the ids the peer has chosen: two that share a slot of the table of
\* INIT_POOL_SIZE slots, and one that shares a slot with the first in the
\* table of twice the size
PoolPeerIds == {2, 2 + INIT_POOL_SIZE, 2 + 2 * INIT_POOL_SIZE}

\* cleanq_add_region
PoolAddRegion(cap, rid) ==
    LET r == region_pool_add_region_with_id(pool[LbE], cap, rid)
    IN  /\ nops < MaxOps
        /\ pool' = [pool EXCEPT ![LbE] = r.pool]
        /\ res' = Call("add_region", r.err, ZeroDesc, cap, rid)
        /\ cyc' = [prev |-> res, snap |-> cyc.before, before |-> pool[LbE]]
        /\ nops' = nops + 1
        /\ UNCHANGED <<lq, enqOk, deqOk, ff, ipc, dbg>>

PoolIdNext ==
    \/ \E cap \in PoolCaps : PoolRegister(cap)
    \/ \E rid \in PoolRidInputs(pool[LbE]) : PoolDeregister(rid, NoCap)
    \/ \E rid \in PoolPeerIds : PoolAddRegion(Cap(0, OffMod - 4, 1), rid)

SpecPoolId == PoolInit /\ [][PoolIdNext]_vars

\* the slots of the table that hold a region
OccupiedSlots(p) == {i \in 0..(p.size - 1) : p.pool[i] # NULLREGION}

IsPowerOfTwo(n) == \E k \in 0..(POOL_SIZE_BITS - 1) : n = 2 ^ k

\* the ids of the regions are pairwise distinct, each region is stored at
\* slot id & (size - 1), the size is a power of two, num_regions is the
\* number of occupied slots and at most size
PoolWellFormed(p) ==
    /\ \A i, j \in OccupiedSlots(p) : p.pool[i].id = p.pool[j].id => i = j
    /\ \A i \in OccupiedSlots(p) : MaskIdx(p.pool[i].id, p.size) = i
    /\ IsPowerOfTwo(p.size)
    /\ p.num_regions = Cardinality(OccupiedSlots(p))
    /\ p.num_regions <= p.size

\* the pool modelled slot by slot, up to the table of 2 * INIT_POOL_SIZE
\* slots
PoolIdWellFormed == PoolWellFormed(pool[LbE])

\* a cleanq_add_region has found the table full, grown it, and entered the
\* region in a slot of the upper half
PoolIdGrown ==
    /\ res.op = "add_region" /\ res.err = ERR_OK
    /\ cyc.before.num_regions = cyc.before.size
    /\ pool[LbE].size = 2 * cyc.before.size
    /\ MaskIdx(res.rid, pool[LbE].size) >= cyc.before.size
    /\ RegionsWithId(pool[LbE], res.rid) # {}

\* C28: after any sequence of add_region, add_region_with_id, remove_region
\* and growth, the ids of the regions in the pool are pairwise distinct,
\* each region is stored at slot id & (size - 1), the table size is a power
\* of two, and num_regions equals the number of occupied slots and is
\* <= size. Stated here of the counters of the pool in their width, for
\* every size the table can have: as long as no call has faulted, the size
\* is a power of two and num_regions is at most the size.
C28_PoolInvariants ==
    ~ pool[LbE].fault =>
        /\ IsPowerOfTwo(pool[LbE].size)
        /\ pool[LbE].num_regions <= pool[LbE].size

\* C28 witness: a register on the full table of 2^15 slots has grown it to a
\* table of size 0 and counted one more region
C28_Witness ==
    /\ res.op = "register" /\ res.err = ERR_OK
    /\ cyc.size = 2 ^ (POOL_SIZE_BITS - 1) /\ cyc.num_regions = cyc.size
    /\ pool[LbE].size = 0
    /\ pool[LbE].num_regions = cyc.size + 1

(***************************************************************************)
(* The FF backend: one ring of slots per direction in shared memory        *)
(* (ffq_impl.h) and the queue operations on top of it (ff_queue.c).        *)
(* Every access to a word of the shared memory is a step of its own.       *)
(***************************************************************************)
FFQ_DEFAULT_SIZE == 64
\* ((ffq_payload_t)-1): all ones
FFQ_SLOT_EMPTY == 0 - 1
FFQ_CMD_REGISTER == 1
FFQ_CMD_DEREGISTER == 2

\* number of sending calls (enqueue, register, deregister) of the creator;
\* the joiner makes at most one
FfMaxSends == 2
FfSends(e) == IF e = "creator" THEN FfMaxSends ELSE 1

Peer(e) == IF e = "creator" THEN "joiner" ELSE "creator"

\* cleanq_ffq_create: the creator receives on the first ring of the mapping
\* and sends on the second, the joiner the other way round
FfRxRing(e) == IF e = "creator" THEN 0 ELSE 1
FfTxRing(e) == IF e = "creator" THEN 1 ELSE 0

\* CLEANQ_FLAG_LAST: bit 30 of the flags
CLEANQ_FLAG_LAST == 2 ^ 30

\* the flags of the buffers that carry some: the values of the two
\* commands, and CLEANQ_FLAG_LAST
BufFlags == {1, 2, CLEANQ_FLAG_LAST}

\* the callbacks of a queue (cleanq_set_register_callback,
\* cleanq_set_deregister_callback): the joiner has set both, the creator
\* none
CallbacksSet(e) == e = "joiner"

\* ghost: a command a dequeue has handled; err is what the handler
\* returned, called whether it invoked the callback
HandledCmd(kind, rid, cap, err, called) ==
    [kind |-> kind, rid |-> rid, cap |-> cap, err |-> err, called |-> called]
NoHandledCmd == HandledCmd("none", 0, NoCap, ERR_OK, FALSE)

\* a handle_register_command that invokes the callback whatever
\* cleanq_add_region returned
handle_register_command_Mutant(p, cap, rid, cb) ==
    LET r == region_pool_add_region_with_id(p, cap, rid)
    IN  [pool |-> r.pool, err |-> r.err, called |-> cb]

\* handle_register_command (the same in both backends): [pool, err, called];
\* when the callback is invoked its return value, which only ends up in a
\* printf, is taken as OK
handle_register_command(p, cap, rid, cb) ==
    LET r == region_pool_add_region_with_id(p, cap, rid)
    IN  IF err_is_fail(r.err)
        THEN [pool |-> r.pool, err |-> r.err, called |-> FALSE]
        ELSE [pool |-> r.pool, err |-> ERR_OK, called |-> cb]

\* handle_deregister_command / handle_register_decommand: [pool, err, called]
handle_deregister_command(p, rid, cb) ==
    LET r == region_pool_remove_region(p, rid)
    IN  IF err_is_fail(r.err)
        THEN [pool |-> r.pool, err |-> r.err, called |-> FALSE]
        ELSE [pool |-> r.pool, err |-> ERR_OK, called |-> cb]

\* the six words ff_enqueue passes to ffq_impl_send, words 0..5 at 1..6
DescWords(d) == <<d.rid, d.offset, d.length, d.valid_data, d.valid_length, d.flags>>
WordsDesc(w) == Desc(w[1], w[2], w[3], w[4], w[5], w[6])

\* ff_register and ff_deregister: the command sent to the other side
ff_register_words(cap, rid) == <<rid, cap.vaddr, cap.len, cap.paddr, 0, FFQ_CMD_REGISTER>>
ff_deregister_words(rid) == <<rid, 0, 0, 0, 0, FFQ_CMD_DEREGISTER>>

\* ffq_impl_init_tx / ffq_impl_init_rx with init: word 0 of every slot is
\* FFQ_SLOT_EMPTY, the other words are those of the fresh (zeroed) mapping
FfEmptySlot == <<FFQ_SLOT_EMPTY, 0, 0, 0, 0, 0>>
ffq_impl_init(ring) == [ring |-> ring, size |-> FFQ_DEFAULT_SIZE, pos |-> 0]

\* the order in which ffq_impl_send writes the words of the slot
\* (a send that publishes word 0 before the payload words)
SendWriteOrder_Mutant == <<0, 1, 2, 3, 4, 5>>
\* the order in which ffq_impl_send writes the words of the slot: the
\* payload words, the barrier, then word 0
SendWriteOrder == <<1, 2, 3, 4, 5, 0>>

\* "bump the position" of ffq_impl_send and ffq_impl_recv
ffq_impl_bump(q) == [q EXCEPT !.pos = q.pos % q.size]

\* the return value of ff_enqueue for the result of ffq_impl_send
ff_enqueue_err(sent) == IF sent THEN ERR_QUEUE_FULL ELSE ERR_OK

\* an endpoint that is in no call
FfIdle == [op |-> "idle", step |-> 0, call |-> "none", args |-> <<>>, buf |-> <<>>]

\* the record of a completed call: err is what the frontend returned, berr
\* what the backend returned
FfCall(op, err, berr, d) == [op |-> op, err |-> err, berr |-> berr, d |-> d]
FfNoCall == FfCall("none", ERR_OK, ERR_OK, ZeroDesc)

FfCreated ==
    [ring |-> [r \in 0..1 |-> [i \in 0..(FFQ_DEFAULT_SIZE - 1) |-> FfEmptySlot]],
     txq  |-> [e \in Endpoints |-> ffq_impl_init(FfTxRing(e))],
     rxq  |-> [e \in Endpoints |-> ffq_impl_init(FfRxRing(e))],
     pc   |-> [e \in Endpoints |-> FfIdle],
     \* ghost: per ring, the publications not yet received
     pub  |-> [r \in 0..1 |-> <<>>],
     \* ghost: per ring, the calls ("enqueue", "register", "deregister")
     \* that made these publications
     pubk |-> [r \in 0..1 |-> <<>>],
     \* ghost: the words of the last completed ffq_impl_recv and the
     \* publication it belongs to
     last |-> [e \in Endpoints |-> [words |-> <<>>, pub |-> <<>>, kind |-> "none"]],
     \* ghost: the data descriptors whose enqueue returned OK, and those
     \* ff_dequeue returned with OK
     sent |-> [e \in Endpoints |-> <<>>],
     recv |-> [e \in Endpoints |-> <<>>],
     \* ghost: the descriptors cleanq_dequeue returned with OK
     deq  |-> [e \in Endpoints |-> <<>>],
     res  |-> [e \in Endpoints |-> FfNoCall],
     \* ghost: what the last ffq_impl_send of the endpoint read in word 0 of
     \* its slot, the position it had then, and whether it wrote the slot
     tx   |-> [e \in Endpoints |-> [word0 |-> FFQ_SLOT_EMPTY, pos |-> 0, wrote |-> FALSE]],
     \* ghost: the position of the last completed ffq_impl_recv before it
     rxpos |-> [e \in Endpoints |-> 0],
     \* ghost: the command the last ffq_impl_recv of the endpoint brought,
     \* if it brought one
     hcmd |-> [e \in Endpoints |-> NoHandledCmd],
     registered |-> [e \in Endpoints |-> FALSE],
     n    |-> [e \in Endpoints |-> 0]]


\* ffq_impl_get_slot: the slot at the position of the channel
FfSlot(f, q) == f.ring[q.ring][q.pos]

ffq_impl_can_send(f, q) == FfSlot(f, q)[1] = FFQ_SLOT_EMPTY
ffq_impl_can_recv(f, q) == FfSlot(f, q)[1] # FFQ_SLOT_EMPTY

\* ffq_impl_send has returned: ff_enqueue, and the frontend call above it,
\* return
FfSendDone(f, e, call, w, sent) ==
    LET err == ff_enqueue_err(sent)
    IN  [f EXCEPT !.pc[e] = FfIdle,
                  !.res[e] = FfCall(call, err, err, WordsDesc(w)),
                  !.tx[e].wrote = sent,
                  !.sent[e] = IF call = "enqueue" /\ err = ERR_OK
                              THEN Append(@, WordsDesc(w)) ELSE @]

\* ff_enqueue calls ffq_impl_send, which reads word 0 of the slot
\* (ffq_impl_can_send) and returns false when the slot is not empty
FfStartSend(f, e, call, w) ==
    LET f1 == [f EXCEPT !.tx[e] = [word0 |-> FfSlot(f, f.txq[e])[1],
                                   pos |-> f.txq[e].pos, wrote |-> FALSE]]
    IN  IF ffq_impl_can_send(f, f.txq[e])
        THEN [f1 EXCEPT !.pc[e] = [op |-> "send", step |-> 1, call |-> call,
                                   args |-> w, buf |-> <<>>]]
        ELSE FfSendDone(f1, e, call, w, FALSE)

\* what an endpoint passes to its calls
FfCaps(e) == IF e = "creator" THEN {Cap(0, 0, 4)} ELSE {Cap(1, 4, 4)}
FfRids(e) == {r.id : r \in PoolRegions(pool[e])}
FfShapes == {<<0, 2, 2>>, <<2, 2, 1>>}
FfDescInputs(e) ==
    {Desc(rid, sh[1], sh[2], 0, sh[3], 0) : rid \in FfRids(e), sh \in FfShapes}
        \cup {Desc(rid, 0, 2, 0, 2, fl) : rid \in FfRids(e), fl \in BufFlags}

FfInit ==
    \E ro \in RegionOffsets :
        /\ pool = [e \in Endpoints |->
                      IF e = "creator" THEN region_pool_init(0) ELSE region_pool_init(ro)]
        /\ ff = FfCreated
        /\ lq = loopback_queue_create
        /\ enqOk = EmptyBag
        /\ deqOk = EmptyBag
        /\ res = NoCall
        /\ nops = 0
        /\ cyc = NoCycle
        /\ ipc = NoQueue /\ dbg = NoQueue

\* cleanq_enqueue on an FF queue, up to the first read of the ring
FfEnqueue(e, d) ==
    /\ ff.pc[e].op = "idle" /\ ff.n[e] < FfSends(e)
    /\ LET f1 == [ff EXCEPT !.n[e] = @ + 1]
       IN  ff' = IF ~ EnqueueInvokesBackend(pool[e], d)
                 THEN [f1 EXCEPT !.res[e] =
                          FfCall("enqueue", ERR_INVALID_BUFFER_ARGS, "none", d)]
                 ELSE FfStartSend(f1, e, "enqueue", DescWords(d))
    /\ UNCHANGED <<pool, lq, enqOk, deqOk, res, nops, cyc, ipc, dbg>>

\* cleanq_register on an FF queue, up to the first read of the ring
FfRegister(e, cap) ==
    /\ ff.pc[e].op = "idle" /\ ff.n[e] < FfSends(e)
    /\ LET r  == cleanq_register(pool[e], cap, ERR_OK)
           f1 == [ff EXCEPT !.n[e] = @ + 1, !.registered[e] = TRUE]
       IN  /\ pool' = [pool EXCEPT ![e] = r.pool]
           /\ ff' = IF ~ r.invoked
                    THEN [f1 EXCEPT !.res[e] = FfCall("register", r.err, "none", ZeroDesc)]
                    ELSE FfStartSend(f1, e, "register", ff_register_words(cap, r.rid))
    /\ UNCHANGED <<lq, enqOk, deqOk, res, nops, cyc, ipc, dbg>>

\* cleanq_deregister on an FF queue, up to the first read of the ring
FfDeregister(e, rid) ==
    /\ ff.pc[e].op = "idle" /\ ff.n[e] < FfSends(e)
    /\ LET r  == cleanq_deregister(pool[e], rid, ERR_OK)
           f1 == [ff EXCEPT !.n[e] = @ + 1]
       IN  /\ pool' = [pool EXCEPT ![e] = r.pool]
           /\ ff' = IF ~ r.invoked
                    THEN [f1 EXCEPT !.res[e] = FfCall("deregister", r.err, "none", ZeroDesc)]
                    ELSE FfStartSend(f1, e, "deregister", ff_deregister_words(rid))
    /\ UNCHANGED <<lq, enqOk, deqOk, res, nops, cyc, ipc, dbg>>

\* ffq_impl_send writes one word of the slot; after the last one it bumps
\* the position and returns true
FfSendStep(e) ==
    /\ ff.pc[e].op = "send"
    /\ LET pc == ff.pc[e]
           q  == ff.txq[e]
           k  == SendWriteOrder[pc.step]
           f1 == [ff EXCEPT !.ring[q.ring][q.pos][k + 1] = pc.args[k + 1]]
       IN  ff' = IF pc.step < 6
                 THEN [f1 EXCEPT !.pc[e].step = @ + 1]
                 ELSE FfSendDone([f1 EXCEPT !.txq[e] = ffq_impl_bump(q),
                                            !.pub[q.ring] = Append(@, pc.args),
                                            !.pubk[q.ring] = Append(@, pc.call)],
                                 e, pc.call, pc.args, TRUE)
    /\ UNCHANGED <<pool, lq, enqOk, deqOk, res, nops, cyc, ipc, dbg>>

\* cleanq_dequeue calls ff_dequeue, which calls ffq_impl_recv, which reads
\* word 0 of the slot (ffq_impl_can_recv); ff_dequeue comes here again after
\* it has handled a command
FfRecvCheck(e) ==
    /\ \/ ff.pc[e].op = "idle"
       \/ ff.pc[e].op = "recv" /\ ff.pc[e].step = 0
    /\ ff' = IF ffq_impl_can_recv(ff, ff.rxq[e])
             THEN [ff EXCEPT !.pc[e] = [op |-> "recv", step |-> 1, call |-> "dequeue",
                                        args |-> <<>>, buf |-> <<>>]]
             ELSE [ff EXCEPT !.pc[e] = FfIdle,
                             !.res[e] = FfCall("dequeue", ERR_QUEUE_EMPTY,
                                               ERR_QUEUE_EMPTY, ZeroDesc)]
    /\ UNCHANGED <<pool, lq, enqOk, deqOk, res, nops, cyc, ipc, dbg>>

\* ffq_impl_recv copies one word out of the slot
FfRecvCopy(e) ==
    /\ ff.pc[e].op = "recv" /\ ff.pc[e].step \in 1..6
    /\ ff' = [ff EXCEPT !.pc[e].buf = Append(@, FfSlot(ff, ff.rxq[e])[ff.pc[e].step]),
                        !.pc[e].step = @ + 1]
    /\ UNCHANGED <<pool, lq, enqOk, deqOk, res, nops, cyc, ipc, dbg>>

\* ffq_impl_recv clears word 0 of the slot, bumps the position and returns
\* true; ff_dequeue returns a data descriptor to its caller, or handles the
\* command and receives again: the [ff, pool] this leaves. The err of the
\* result is that of cleanq_dequeue on the FF queue, which checks the bounds
FfRecvCleared(e) ==
    LET q  == ff.rxq[e]
        d  == WordsDesc(ff.pc[e].buf)
        f1 == [ff EXCEPT !.ring[q.ring][q.pos][1] = FFQ_SLOT_EMPTY,
                         !.rxq[e] = ffq_impl_bump(q),
                         !.rxpos[e] = q.pos,
                         !.last[e] = [words |-> ff.pc[e].buf,
                                      pub |-> IF ff.pub[q.ring] = <<>> THEN <<>>
                                              ELSE Head(ff.pub[q.ring]),
                                      kind |-> IF ff.pubk[q.ring] = <<>> THEN "none"
                                               ELSE Head(ff.pubk[q.ring])],
                         !.pub[q.ring] = IF @ = <<>> THEN @ ELSE Tail(@),
                         !.pubk[q.ring] = IF @ = <<>> THEN @ ELSE Tail(@)]
        again == [FfIdle EXCEPT !.op = "recv", !.call = "dequeue"]
        cap == Cap(d.offset, d.valid_data, d.length)
        hr == handle_register_command(pool[e], cap, d.rid, CallbacksSet(e))
        hd == handle_deregister_command(pool[e], d.rid, CallbacksSet(e))
    IN  IF d.flags = 0
        THEN [ff   |-> [f1 EXCEPT !.pc[e] = FfIdle,
                                  !.hcmd[e] = NoHandledCmd,
                                  !.res[e] = FfCall("dequeue",
                                                    cleanq_dequeue_err(pool[e], d, ERR_OK),
                                                    ERR_OK, d),
                                  !.recv[e] = Append(@, d),
                                  !.deq[e] = IF cleanq_dequeue_err(pool[e], d, ERR_OK) = ERR_OK
                                             THEN Append(@, d) ELSE @],
              pool |-> pool]
        ELSE IF d.flags = FFQ_CMD_REGISTER
        THEN [ff   |-> [f1 EXCEPT !.pc[e] = again,
                                  !.hcmd[e] = HandledCmd("register", d.rid, cap,
                                                         hr.err, hr.called)],
              pool |-> [pool EXCEPT ![e] = hr.pool]]
        ELSE [ff   |-> [f1 EXCEPT !.pc[e] = again,
                                  !.hcmd[e] = HandledCmd("deregister", d.rid, NoCap,
                                                         hd.err, hd.called)],
              pool |-> [pool EXCEPT ![e] = hd.pool]]

\* the last step of ffq_impl_recv and what ff_dequeue does with the message
FfRecvClear(e) ==
    /\ ff.pc[e].op = "recv" /\ ff.pc[e].step = 7
    /\ ff' = FfRecvCleared(e).ff
    /\ pool' = FfRecvCleared(e).pool
    /\ UNCHANGED <<lq, enqOk, deqOk, res, nops, cyc, ipc, dbg>>

FfNext ==
    \E e \in Endpoints :
        \/ \E d \in FfDescInputs(e) : FfEnqueue(e, d)
        \/ \E cap \in FfCaps(e) : FfRegister(e, cap)
        \/ \E rid \in FfRids(e) : FfDeregister(e, rid)
        \/ FfSendStep(e)
        \/ FfRecvCheck(e)
        \/ FfRecvCopy(e)
        \/ FfRecvClear(e)

SpecFF == FfInit /\ [][FfNext]_vars


\* the specification with the scheduling of the examples: a call in progress
\* runs to its end, and each endpoint polls its queue with cleanq_dequeue
SpecFFLive ==
    /\ FfInit
    /\ [][FfNext]_vars
    /\ \A e \in Endpoints :
          /\ WF_vars(FfSendStep(e))
          /\ WF_vars(FfRecvCheck(e) \/ FfRecvCopy(e) \/ FfRecvClear(e))

\* s is a prefix of t
IsPrefix(s, t) == Len(s) <= Len(t) /\ \A i \in 1..Len(s) : s[i] = t[i]

\* C2 (FF): for each direction of the channel and under every interleaving
\* of the two endpoints, the sequence of data descriptors returned with OK
\* by the receiver's dequeue is a prefix of the sequence of descriptors for
\* which the sender's enqueue returned OK.
C2_FifoFF == \A e \in Endpoints : IsPrefix(ff.recv[Peer(e)], ff.sent[e])

\* C2 (FF) witness: the receiver's dequeue has returned with OK a descriptor
\* for which the sender's enqueue returned QUEUE_FULL
C2_WitnessFF ==
    \E e \in Endpoints :
        /\ ff.res[e].op = "enqueue" /\ ff.res[e].err = ERR_QUEUE_FULL
        /\ ff.res[Peer(e)].op = "dequeue" /\ ff.res[Peer(e)].err = ERR_OK
        /\ ff.res[Peer(e)].d = ff.res[e].d
        /\ ff.sent[e] = <<>>

\* C6: a receive that observes word 0 # ALL_ONES and completes returns
\* exactly the six words the sender wrote for that publication; the sender
\* writes payload words only into a slot whose word 0 is ALL_ONES; and the
\* receiver clears a slot only when it has copied all six words of it.
C6_NoTornSlot ==
    \A e \in Endpoints :
        /\ ff.last[e].words = ff.last[e].pub
        /\ (ff.pc[e].op = "send" /\ \E k \in ff.pc[e].step..6 : SendWriteOrder[k] # 0)
              => FfSlot(ff, ff.txq[e])[1] = FFQ_SLOT_EMPTY
        /\ (ff.pc[e].op = "recv" /\ ff.pc[e].step = 7)
              => ff.pc[e].buf = FfSlot(ff, ff.rxq[e])

\* C6 witness: a receive of a published slot has completed with the words of
\* the publication, and the sender is writing that slot again
C6_Witness ==
    \E e \in Endpoints :
        /\ Len(ff.last[e].words) = 6
        /\ ff.last[e].words = ff.last[e].pub
        /\ ff.res[Peer(e)].berr = ERR_QUEUE_FULL
        /\ ff.pc[Peer(e)].op = "send" /\ ff.pc[Peer(e)].step > 1
        /\ ff.txq[Peer(e)].ring = ff.rxq[e].ring


\* the descriptors for which the enqueue of e returned OK and which the
\* cleanq_dequeue of the peer has not returned with OK
FfPending(e) ==
    {ff.sent[e][i] : i \in 1..Len(ff.sent[e])}
        \ {ff.deq[Peer(e)][i] : i \in 1..Len(ff.deq[Peer(e)])}

\* C9: when one endpoint registers a region R and then enqueues a buffer that
\* lies inside R, the cleanq_dequeue of the peer, which never called
\* register, eventually returns OK with exactly that tuple.
C9_PeerReceives ==
    (\E e \in Endpoints : FfPending(e) # {} /\ ~ ff.registered[Peer(e)])
        ~> (\A e \in Endpoints : FfPending(e) = {} \/ ff.registered[Peer(e)])

\* C9 witness: the creator has registered a region, its register and the
\* enqueue that followed have returned, and the joiner, which never called
\* register, has dequeued the register command and found the ring empty
C9_Witness ==
    /\ ff.registered["creator"] /\ ~ ff.registered["joiner"]
    /\ ff.sent["creator"] # <<>>
    /\ PoolRegions(pool["joiner"]) = PoolRegions(pool["creator"])
    /\ ff.res["joiner"].op = "dequeue" /\ ff.res["joiner"].err = ERR_QUEUE_EMPTY
    /\ ff.deq["joiner"] = <<>>
    /\ CheckDesc(pool["joiner"], ff.sent["creator"][1])


\* the endpoint's last completed call went through ff_enqueue
FfSendReturned(e) ==
    /\ ff.pc[e].op # "send"
    /\ ff.res[e].op \in {"enqueue", "register", "deregister"}
    /\ ff.res[e].berr # "none"

\* C11: the enqueue of the FF backend returns QUEUE_FULL exactly when word 0
\* of the slot at pos is not ALL_ONES, and then it has written nothing to
\* the ring; otherwise it has written the descriptor into the slot and
\* returns OK.
C11_EnqueueResult ==
    \A e \in Endpoints :
        FfSendReturned(e) =>
            /\ ff.res[e].berr \in {ERR_QUEUE_FULL, ERR_OK}
            /\ ff.res[e].berr = ERR_QUEUE_FULL <=> ff.tx[e].word0 # FFQ_SLOT_EMPTY
            /\ ff.res[e].berr = ERR_QUEUE_FULL => ~ ff.tx[e].wrote
            /\ ff.res[e].berr = ERR_OK => ff.tx[e].wrote

\* C11 witness: an enqueue of a data descriptor that found word 0 of its
\* slot ALL_ONES, wrote the six words and returned QUEUE_FULL, and an
\* enqueue that found the slot taken, wrote nothing and returned OK
C11_Witness ==
    /\ \E e \in Endpoints :
          /\ FfSendReturned(e) /\ ff.res[e].op = "enqueue"
          /\ ff.tx[e].word0 = FFQ_SLOT_EMPTY /\ ff.tx[e].wrote
          /\ ff.res[e].err = ERR_QUEUE_FULL
          /\ DescWords(ff.res[e].d) \in
                 {ff.pub[FfTxRing(e)][i] : i \in 1..Len(ff.pub[FfTxRing(e)])}
    /\ \E e \in Endpoints :
          /\ FfSendReturned(e) /\ ff.res[e].op = "enqueue"
          /\ ff.tx[e].word0 # FFQ_SLOT_EMPTY /\ ~ ff.tx[e].wrote
          /\ ff.res[e].err = ERR_OK


\* C12: every successful FF send and every successful FF receive advances
\* the pos of its endpoint to (pos + 1) mod N; consequently, as long as the
\* peer has received nothing, each of the first N sends of an endpoint is
\* accepted (written to the ring).
C12_PosAdvances ==
    \A e \in Endpoints :
        /\ ff.tx[e].wrote =>
               ff.txq[e].pos = (ff.tx[e].pos + 1) % FFQ_DEFAULT_SIZE
        /\ Len(ff.last[e].words) = 6 =>
               ff.rxq[e].pos = (ff.rxpos[e] + 1) % FFQ_DEFAULT_SIZE
        /\ (/\ FfSendReturned(e)
            /\ ff.n[e] <= FFQ_DEFAULT_SIZE
            /\ ff.last[Peer(e)].words = <<>> /\ ff.pc[Peer(e)].op # "recv")
               => ff.tx[e].wrote

\* C12 witness: a send and a receive have completed and left pos where it
\* was, and the second send of an endpoint whose peer has received nothing
\* was refused
C12_Witness ==
    /\ \E e \in Endpoints :
          /\ ff.tx[e].wrote /\ ff.txq[e].pos = ff.tx[e].pos
          /\ Len(ff.last[Peer(e)].words) = 6
          /\ ff.rxq[Peer(e)].pos = ff.rxpos[Peer(e)]
    /\ \E e \in Endpoints :
          /\ FfSendReturned(e) /\ ff.n[e] = 2
          /\ ff.last[Peer(e)].words = <<>> /\ ff.pc[Peer(e)].op # "recv"
          /\ ~ ff.tx[e].wrote /\ ff.tx[e].pos = 0


(***************************************************************************)
(* The IPC backend (ipc_queue.c): per direction a ring of descriptors and  *)
(* a word with the acknowledged sequence number, in one shared mapping.    *)
(* Addresses are counted in messages of IPCQ_MESSAGE_SIZE bytes from the   *)
(* start of the mapping.                                                   *)
(***************************************************************************)
IPCQ_DEFAULT_SIZE == 64
IPCQ_CMD_REGISTER == 1
IPCQ_CMD_DEREGISTER == 2

\* IPCQ_CHAN_SIZE and IPCQ_MEM_SIZE in messages
IPCQ_CHAN_MSGS == IPCQ_DEFAULT_SIZE
IPCQ_MEM_MSGS == 2 * IPCQ_CHAN_MSGS

\* struct ipcq_desc
IpcDesc(seq, d, cmd) ==
    [seq |-> seq, rid |-> d.rid, offset |-> d.offset, length |-> d.length,
     valid_data |-> d.valid_data, valid_length |-> d.valid_length,
     flags |-> d.flags, cmd |-> cmd]
IpcDescBuf(x) == Desc(x.rid, x.offset, x.length, x.valid_data, x.valid_length, x.flags)

\* a descriptor of the fresh (zeroed) mapping
ZeroIpcDesc == IpcDesc(0, ZeroDesc, 0)

\* cleanq_ipcq_create: the pointers into the mapping, the number of slots
\* and the sequence numbers of one endpoint
cleanq_ipcq_create(creator) ==
    [tx_seq_ack |-> IF creator THEN 0 ELSE IPCQ_CHAN_MSGS,
     rx_seq_ack |-> IF creator THEN IPCQ_CHAN_MSGS ELSE 0,
     tx_descs   |-> IF creator THEN 1 ELSE IPCQ_CHAN_MSGS + 1,
     rx_descs   |-> IF creator THEN IPCQ_CHAN_MSGS + IPCQ_CHAN_MSGS ELSE 1,
     slots      |-> IPCQ_DEFAULT_SIZE - 1,
     rx_seq     |-> 1,
     tx_seq     |-> 1,
     \* q.callbacks of the zeroed queue structure: none set
     callbacks  |-> FALSE]

\* cleanq_set_register_callback and cleanq_set_deregister_callback
cleanq_set_callbacks(q, cb) == [q EXCEPT !.callbacks = cb]

\* the mapping after both endpoints have run cleanq_ipcq_create: zeroed by
\* ftruncate, both acknowledgement words set to 0
IpcMemCreated ==
    [a \in 0..(IPCQ_MEM_MSGS - 1) |->
        IF a \in {0, IPCQ_CHAN_MSGS} THEN 0 ELSE ZeroIpcDesc]

\* ipcq_can_send: tx_seq - tx_seq_ack->value in unsigned arithmetic, which
\* is a huge number when the acknowledged number is ahead of tx_seq
ipcq_can_send(q, mem) ==
    /\ q.tx_seq >= mem[q.tx_seq_ack]
    /\ q.tx_seq - mem[q.tx_seq_ack] < q.slots

\* ipcq_enqueue_internal: [q, mem, err]
ipcq_enqueue_internal(q, mem, d, cmd) ==
    IF ~ ipcq_can_send(q, mem)
    THEN [q |-> q, mem |-> mem, err |-> ERR_QUEUE_FULL]
    ELSE [q   |-> [q EXCEPT !.tx_seq = q.tx_seq + 1],
          mem |-> [mem EXCEPT ![q.tx_descs + (q.tx_seq % q.slots)] = IpcDesc(q.tx_seq, d, cmd)],
          err |-> ERR_OK]

\* what a read outside of the mapping can give: a fault that ends the
\* process, zeroes, or whatever else lies there
IpcOobReads ==
    {[fault |-> TRUE, desc |-> ZeroIpcDesc],
     [fault |-> FALSE, desc |-> ZeroIpcDesc],
     [fault |-> FALSE, desc |-> IpcDesc(OffMax, Desc(OffMax, 1, 1, 0, 1, 0), 0)]}

\* ipcq_get_rx_desc_tail: the address of the descriptor at rx_seq
ipcq_get_rx_desc_tail(q) == q.rx_descs + (q.rx_seq % q.slots)

\* the descriptor ipcq_dequeue reads at the tail
IpcTailDesc(q, mem, oob) ==
    IF ipcq_get_rx_desc_tail(q) < IPCQ_MEM_MSGS THEN mem[ipcq_get_rx_desc_tail(q)]
    ELSE oob.desc

\* ipcq_dequeue: [q, mem, pool, err, d, cmds]; commands are applied to the
\* pool and the descriptor after them is received; cmds (ghost) are the
\* commands the call has handled, each with the pool it left
RECURSIVE ipcq_dequeue(_, _, _, _)
ipcq_dequeue(q, mem, p, oob) ==
    LET tail == IpcTailDesc(q, mem, oob)
        q1   == [q EXCEPT !.rx_seq = q.rx_seq + 1]
        mem1 == [mem EXCEPT ![q.rx_seq_ack] = q1.rx_seq]
        cap  == Cap(tail.offset, tail.valid_data, tail.length)
        hr   == handle_register_command(p, cap, tail.rid, q.callbacks)
        hd   == handle_deregister_command(p, tail.rid, q.callbacks)
    IN  IF ~ (q.rx_seq <= tail.seq)
        THEN [q |-> q, mem |-> mem, pool |-> p, err |-> ERR_QUEUE_EMPTY, d |-> ZeroDesc,
              cmds |-> <<>>]
        ELSE IF tail.cmd = 0
        THEN [q |-> q1, mem |-> mem1, pool |-> p, err |-> ERR_OK, d |-> IpcDescBuf(tail),
              cmds |-> <<>>]
        ELSE IF tail.cmd = IPCQ_CMD_REGISTER
        THEN LET r == ipcq_dequeue(q1, mem1, hr.pool, oob)
             IN  [r EXCEPT !.cmds =
                     <<[cmd  |-> HandledCmd("register", tail.rid, cap, hr.err, hr.called),
                        pool |-> hr.pool]>> \o @]
        ELSE LET r == ipcq_dequeue(q1, mem1, hd.pool, oob)
             IN  [r EXCEPT !.cmds =
                     <<[cmd  |-> HandledCmd("deregister", tail.rid, NoCap, hd.err, hd.called),
                        pool |-> hd.pool]>> \o @]


\* the record of a completed call on an IPC queue; retry says that the call
\* repeats an enqueue that returned QUEUE_FULL, after the peer has dequeued
IpcCall(op, err, berr, d, retry) ==
    [op |-> op, err |-> err, berr |-> berr, d |-> d, retry |-> retry]
IpcNoCall == IpcCall("none", ERR_OK, ERR_OK, ZeroDesc, FALSE)

IpcCreated ==
    [mem   |-> IpcMemCreated,
     q     |-> [e \in Endpoints |->
                  cleanq_set_callbacks(cleanq_ipcq_create(e = "creator"), CallbacksSet(e))],
     \* "idle", "spin" (in the busy-wait of ipcq_register / ipcq_deregister)
     \* or "fault" (ended by a fault)
     pc    |-> [e \in Endpoints |-> "idle"],
     \* the command a spinning endpoint is waiting to send
     cmd   |-> [e \in Endpoints |-> ZeroIpcDesc],
     res   |-> [e \in Endpoints |-> IpcNoCall],
     \* ghost: the commands the last ipcq_dequeue of the endpoint handled
     cmds  |-> [e \in Endpoints |-> <<>>],
     \* ghost: the data descriptors whose enqueue returned OK, and those
     \* ipcq_dequeue returned with OK
     sent  |-> [e \in Endpoints |-> <<>>],
     recv  |-> [e \in Endpoints |-> <<>>],
     \* ghost: "filling" while the calls of the endpoint have been one
     \* register and then enqueues only
     phase |-> [e \in Endpoints |-> "none"],
     \* ghost: the number of enqueues the endpoint has called
     nenq  |-> [e \in Endpoints |-> 0],
     \* ghost: the descriptor whose enqueue returned QUEUE_FULL before the
     \* peer dequeued
     retry |-> [e \in Endpoints |-> <<>>],
     n     |-> 0]

\* cleanq_enqueue on an IPC queue; st is [ipc, pool]
IpcDoEnqueue(st, e, d) ==
    LET i   == st.ipc
        r   == ipcq_enqueue_internal(i.q[e], i.mem, d, 0)
        inv == EnqueueInvokesBackend(st.pool[e], d)
        err == cleanq_enqueue_err(st.pool[e], d, r.err)
    IN  [pool |-> st.pool,
         ipc  |-> [i EXCEPT !.q[e] = IF inv THEN r.q ELSE @,
                            !.mem = IF inv THEN r.mem ELSE @,
                            !.res[e] = IpcCall("enqueue", err, IF inv THEN r.err ELSE "none",
                                               d, i.retry[e] = <<d>>),
                            !.sent[e] = IF err = ERR_OK THEN Append(@, d) ELSE @,
                            !.phase[e] = IF @ = "filling" /\ inv THEN "filling" ELSE "other",
                            !.nenq[e] = @ + 1,
                            !.retry[e] = <<>>,
                            !.n = @ + 1]]

\* the command ipcq_register / ipcq_deregister sends
ipcq_register_cmd(cap, rid) == IpcDesc(0, Desc(rid, cap.vaddr, cap.len, cap.paddr, 0, 0), IPCQ_CMD_REGISTER)
ipcq_deregister_cmd(rid) == IpcDesc(0, Desc(rid, 0, 0, 0, 0, 0), IPCQ_CMD_DEREGISTER)

\* ipcq_register / ipcq_deregister: busy wait until a command can be sent,
\* then send it
IpcSendCmd(i, e, op, c) ==
    IF ~ ipcq_can_send(i.q[e], i.mem)
    THEN [i EXCEPT !.pc[e] = "spin", !.cmd[e] = c,
                   !.res[e] = IpcCall(op, "none", "none", ZeroDesc, FALSE)]
    ELSE LET r == ipcq_enqueue_internal(i.q[e], i.mem, IpcDescBuf(c), c.cmd)
         IN  [i EXCEPT !.pc[e] = "idle", !.q[e] = r.q, !.mem = r.mem,
                       !.res[e] = IpcCall(op, r.err, r.err, ZeroDesc, FALSE)]

\* cleanq_register on an IPC queue
IpcDoRegister(st, e, cap) ==
    LET i  == [st.ipc EXCEPT !.n = @ + 1, !.retry[e] = <<>>,
                             !.phase[e] = IF @ = "none" THEN "filling" ELSE "other"]
        r  == cleanq_register(st.pool[e], cap, ERR_OK)
    IN  [pool |-> [st.pool EXCEPT ![e] = r.pool],
         ipc  |-> IF ~ r.invoked
                  THEN [i EXCEPT !.res[e] = IpcCall("register", r.err, "none", ZeroDesc, FALSE),
                                 !.phase[e] = "other"]
                  ELSE IpcSendCmd(i, e, "register", ipcq_register_cmd(cap, r.rid))]

\* cleanq_deregister on an IPC queue
IpcDoDeregister(st, e, rid) ==
    LET i  == [st.ipc EXCEPT !.n = @ + 1, !.retry[e] = <<>>, !.phase[e] = "other"]
        r  == cleanq_deregister(st.pool[e], rid, ERR_OK)
    IN  [pool |-> [st.pool EXCEPT ![e] = r.pool],
         ipc  |-> IF ~ r.invoked
                  THEN [i EXCEPT !.res[e] = IpcCall("deregister", r.err, "none", ZeroDesc, FALSE)]
                  ELSE IpcSendCmd(i, e, "deregister", ipcq_deregister_cmd(rid))]

\* cleanq_dequeue on an IPC queue; oob is what a read outside of the
\* mapping gives
IpcDoDequeue(st, e, oob) ==
    LET i == [st.ipc EXCEPT !.n = @ + 1, !.retry[e] = <<>>, !.phase[e] = "other"]
        q == i.q[e]
        r == ipcq_dequeue(q, i.mem, st.pool[e], oob)
        err == cleanq_dequeue_err(r.pool, r.d, r.err)
    IN  IF ipcq_get_rx_desc_tail(q) >= IPCQ_MEM_MSGS /\ oob.fault
        THEN [pool |-> st.pool,
              ipc  |-> [i EXCEPT !.pc[e] = "fault",
                                 !.res[e] = IpcCall("dequeue", "none", "none", ZeroDesc, FALSE)]]
        ELSE [pool |-> [st.pool EXCEPT ![e] = r.pool],
              ipc  |-> [i EXCEPT !.q[e] = r.q,
                                 !.mem = r.mem,
                                 !.res[e] = IpcCall("dequeue", err, r.err, r.d, FALSE),
                                 !.cmds[e] = r.cmds,
                                 !.recv[e] = IF r.err = ERR_OK THEN Append(@, r.d) ELSE @,
                                 !.retry[Peer(e)] =
                                     IF /\ r.err = ERR_OK
                                        /\ i.res[Peer(e)].op = "enqueue"
                                        /\ i.res[Peer(e)].err = ERR_QUEUE_FULL
                                     THEN <<i.res[Peer(e)].d>> ELSE @]]


\* what an endpoint passes to its calls: the k-th buffer of a region
IpcCaps(e) == IF e = "creator" THEN {Cap(0, 0, 4)} ELSE {Cap(1, 4, 16), Cap(1, 20, 4)}
IpcBuf(rid, k) == Desc(rid, (2 * k) % 16, 2, 0, 2, 0)
IpcRids(e) == {r.id : r \in PoolRegions(pool[e])}
IpcDescInputs(e) ==
    {IpcBuf(rid, k) : rid \in IpcRids(e), k \in {0, ipc.nenq[e]}}
        \cup {Desc(rid, 0, 2, 0, 2, fl) : rid \in IpcRids(e), fl \in BufFlags}

\* the joiner enqueues the buffers k .. n-1 of region rid
RECURSIVE IpcFill(_, _, _, _)
IpcFill(st, rid, k, n) ==
    IF st.ipc.n >= 0 /\ k >= n THEN st
    ELSE IpcFill(IpcDoEnqueue(st, "joiner", IpcBuf(rid, k)), rid, k + 1, n)

\* the runs the initial states are reached by: nothing (-1), or the joiner
\* registers a region and enqueues that many buffers
IpcFills == {0 - 1, 0, IPCQ_DEFAULT_SIZE - 4}

IpcInit ==
    \E ro \in RegionOffsets, n \in IpcFills :
        LET st0 == [ipc  |-> IpcCreated,
                    pool |-> [e \in Endpoints |->
                                 IF e = "creator" THEN region_pool_init(0)
                                 ELSE region_pool_init(ro)]]
            st1 == IpcDoRegister(st0, "joiner", Cap(1, 4, 16))
            rid == CHOOSE id \in {r.id : r \in PoolRegions(st1.pool["joiner"])} : TRUE
            st2 == IF n < 0 THEN st0 ELSE IpcFill(st1, rid, 0, n)
        IN  /\ pool = st2.pool
            /\ ipc = [st2.ipc EXCEPT !.n = 0]
            /\ lq = loopback_queue_create
            /\ enqOk = EmptyBag
            /\ deqOk = EmptyBag
            /\ res = NoCall
            /\ nops = 0
            /\ cyc = NoCycle
            /\ ff = NoQueue /\ dbg = NoQueue

IpcStep(st) ==
    /\ ipc' = st.ipc
    /\ pool' = st.pool
    /\ UNCHANGED <<lq, enqOk, deqOk, res, nops, cyc, ff, dbg>>

IpcEnqueue(e, d) ==
    /\ ipc.pc[e] = "idle" /\ ipc.n < MaxOps
    /\ IpcStep(IpcDoEnqueue([ipc |-> ipc, pool |-> pool], e, d))

IpcRegister(e, cap) ==
    /\ ipc.pc[e] = "idle" /\ ipc.n < MaxOps
    /\ IpcStep(IpcDoRegister([ipc |-> ipc, pool |-> pool], e, cap))

IpcDeregister(e, rid) ==
    /\ ipc.pc[e] = "idle" /\ ipc.n < MaxOps
    /\ IpcStep(IpcDoDeregister([ipc |-> ipc, pool |-> pool], e, rid))

IpcDequeue(e, oob) ==
    /\ ipc.pc[e] = "idle" /\ ipc.n < MaxOps
    /\ IpcStep(IpcDoDequeue([ipc |-> ipc, pool |-> pool], e, oob))

\* the busy wait of ipcq_register / ipcq_deregister ends
IpcSpin(e) ==
    /\ ipc.pc[e] = "spin"
    /\ ipcq_can_send(ipc.q[e], ipc.mem)
    /\ IpcStep([ipc |-> IpcSendCmd(ipc, e, ipc.res[e].op, ipc.cmd[e]), pool |-> pool])

IpcNext ==
    \E e \in Endpoints :
        \/ \E d \in IpcDescInputs(e) : IpcEnqueue(e, d)
        \/ \E cap \in IpcCaps(e) : IpcRegister(e, cap)
        \/ \E rid \in IpcRids(e) : IpcDeregister(e, rid)
        \/ \E oob \in IpcOobReads : IpcDequeue(e, oob)
        \/ IpcSpin(e)

SpecIPC == IpcInit /\ [][IpcNext]_vars

\* an FF channel or an IPC channel: the behaviours of both backends
IsFF == DOMAIN ff # {}
IsIPC == DOMAIN ipc # {}
ChanInit == FfInit \/ IpcInit
ChanNext ==
    \/ IsFF /\ FfNext
    \/ IsIPC /\ IpcNext
SpecChan == ChanInit /\ [][ChanNext]_vars

\* a handled command c took effect on the pool p it left: the region of a
\* register command is in the pool under its id, the region of a deregister
\* command is not
CmdApplied(c, p) ==
    /\ c.kind = "register" =>
           [id |-> c.rid, base_addr |-> c.cap.paddr, len |-> c.cap.len] \in PoolRegions(p)
    /\ c.kind = "deregister" => \A r \in PoolRegions(p) : r.id # c.rid

\* the commands the last dequeue of endpoint e has handled, each with the
\* pool it left; on an FF queue the one the receive loop has just handled
CmdsHandled(e) ==
    IF IsIPC THEN {ipc.cmds[e][i] : i \in 1..Len(ipc.cmds[e])}
    ELSE IF ff.pc[e].op = "recv" /\ ff.pc[e].step = 0
         THEN {[cmd |-> ff.hcmd[e], pool |-> pool[e]]}
         ELSE {}

\* the dequeue of endpoint e has returned OK with a descriptor that is a
\* command of the peer
CmdSurfaced(e) ==
    IF IsIPC
    THEN /\ ipc.res[e].op = "dequeue" /\ ipc.res[e].berr = ERR_OK
         /\ \E a \in (1..(IPCQ_MEM_MSGS - 1)) \ {IPCQ_CHAN_MSGS} :
                ipc.mem[a].cmd # 0 /\ IpcDescBuf(ipc.mem[a]) = ipc.res[e].d
    ELSE /\ ff.res[e].op = "dequeue" /\ ff.res[e].berr = ERR_OK
         /\ ff.res[e].d.flags \in {FFQ_CMD_REGISTER, FFQ_CMD_DEREGISTER}

\* what a completed dequeue of the backend has returned
DequeueReturned(e) ==
    LET r == IF IsIPC THEN ipc.res[e] ELSE ff.res[e]
    IN  IF r.op = "dequeue" /\ r.berr # "none" THEN {r.berr} ELSE {}

IpcRxMapped(e) == ipc.q[e].rx_descs + ipc.q[e].slots <= IPCQ_MEM_MSGS

\* the messages of the transmit ring and of the receive ring of an IPC
\* endpoint: slots descriptors from tx_descs and from rx_descs
IpcTxRing(e) == ipc.q[e].tx_descs .. (ipc.q[e].tx_descs + ipc.q[e].slots - 1)
IpcRxRing(e) == ipc.q[e].rx_descs .. (ipc.q[e].rx_descs + ipc.q[e].slots - 1)

\* the messages of the mapping
IpcMapping == 0 .. (IPCQ_MEM_MSGS - 1)

\* C29: the creator's tx descriptor ring and the ack word it reads for flow
\* control are the same shared locations as the joiner's rx descriptor ring
\* and the ack word the joiner publishes, and symmetrically the joiner's tx
\* ring and ack are the creator's rx ring and ack; every ring of N-1
\* descriptors and both ack words lie inside the 2 x N x SLOT_BYTES mapping
\* and the two directions do not overlap.
C29_LayoutMirrors ==
    /\ \A e \in Endpoints :
          /\ IpcTxRing(e) = IpcRxRing(Peer(e))
          /\ ipc.q[e].tx_seq_ack = ipc.q[Peer(e)].rx_seq_ack
          /\ ipc.q[e].slots = IPCQ_DEFAULT_SIZE - 1
          /\ IpcTxRing(e) \subseteq IpcMapping
          /\ IpcRxRing(e) \subseteq IpcMapping
          /\ ipc.q[e].tx_seq_ack \in IpcMapping
          /\ ipc.q[e].rx_seq_ack \in IpcMapping
    /\ (IpcTxRing("creator") \cup {ipc.q["creator"].tx_seq_ack})
          \cap (IpcTxRing("joiner") \cup {ipc.q["joiner"].tx_seq_ack}) = {}

\* C29 witness: the joiner has enqueued a descriptor, it lies in the
\* joiner's tx ring inside the mapping, and the dequeue of the creator has
\* read its tail descriptor at an address beyond the end of the mapping and
\* returned QUEUE_EMPTY
C29_Witness ==
    /\ ipc.sent["joiner"] # <<>>
    /\ \E a \in IpcTxRing("joiner") : a \in IpcMapping /\ ipc.mem[a].seq >= 1
    /\ ipc.res["creator"].op = "dequeue" /\ ipc.res["creator"].berr = ERR_QUEUE_EMPTY
    /\ ipc.recv["creator"] = <<>>
    /\ ipcq_get_rx_desc_tail(ipc.q["creator"]) >= IPCQ_MEM_MSGS

\* C14: a data buffer enqueued with any flags value (FLAG_LAST, 1, 2) over
\* the FF or IPC backend is returned by the peer's dequeue as a data buffer
\* with the same flags; it is never interpreted as a register or deregister
\* command and never changes the receiver's region pool.
C14_FlagsPassThrough ==
    \A e \in Endpoints :
        IF IsIPC
        THEN IpcRxMapped(e) => IsPrefix(ipc.recv[e], ipc.sent[Peer(e)])
        ELSE ff.last[e].kind = "enqueue" =>
                /\ ff.hcmd[e].kind = "none"
                /\ (ff.pc[e].op = "idle" /\ ff.res[e].op = "dequeue"
                        /\ ff.res[e].berr = ERR_OK)
                       => ff.res[e].d = WordsDesc(ff.last[e].pub)

\* C14 witness: on an FF channel the receiver has pulled a data buffer that
\* was enqueued with CLEANQ_FLAG_LAST and has handled it as a deregister
\* command that removed a region of its pool
C14_Witness ==
    /\ IsFF
    /\ \E e \in Endpoints :
          /\ ff.last[e].kind = "enqueue"
          /\ ff.last[e].pub[6] = CLEANQ_FLAG_LAST
          /\ ff.hcmd[e].kind = "deregister" /\ ff.hcmd[e].err = ERR_OK
          /\ ff.hcmd[e].rid = ff.last[e].pub[1]
          /\ \A r \in PoolRegions(pool[e]) : r.id # ff.hcmd[e].rid

\* the channel with the scheduling a call in progress has on its own: the
\* steps of a started call are taken, whatever the peer does; nothing is
\* said about the calls the peer makes
SpecChanLive ==
    /\ ChanInit
    /\ [][ChanNext]_vars
    /\ \A e \in Endpoints :
          /\ WF_vars(IsFF /\ FfSendStep(e))
          /\ WF_vars(IsFF /\ (FfRecvCheck(e) \/ FfRecvCopy(e) \/ FfRecvClear(e)))
          /\ WF_vars(IsIPC /\ IpcSpin(e))

\* a call of endpoint e has started and not returned
ChanInCall(e) ==
    \/ IsFF /\ ff.pc[e].op # "idle"
    \/ IsIPC /\ ipc.pc[e] = "spin"

\* C19: no operation suspends the caller: on an FF or IPC queue every call
\* that has started returns by the caller's own steps, whatever the peer
\* does; register and deregister return even when the transmit ring is full
\* and the peer never dequeues.
C19_OperationsReturn ==
    \A e \in Endpoints : ChanInCall(e) ~> ~ ChanInCall(e)

\* C19 witness: a register or deregister on an IPC queue is in its busy wait
\* and the ring is full for it
C19_Witness ==
    /\ IsIPC
    /\ \E e \in Endpoints :
          /\ ipc.pc[e] = "spin"
          /\ ipc.res[e].op \in {"register", "deregister"}
          /\ ~ ipcq_can_send(ipc.q[e], ipc.mem)
          /\ ipc.q[e].tx_seq - ipc.mem[ipc.q[e].tx_seq_ack] = ipc.q[e].slots

\* tx_seq - tx_ack of endpoint e: its sequence number less the value the
\* peer last published in the ack word e reads
IpcInFlight(e) == ipc.q[e].tx_seq - ipc.mem[ipc.q[e].tx_seq_ack]

\* the step is a cleanq_enqueue of endpoint e that has called ipcq_enqueue
IpcEnqueueStep(e) ==
    /\ ipc'.nenq[e] = ipc.nenq[e] + 1
    /\ ipc'.res[e].berr # "none"

\* the flow control of the direction endpoint e sends in, as an invariant
IpcFlowBounded(e) == 0 <= IpcInFlight(e) /\ IpcInFlight(e) <= IPCQ_DEFAULT_SIZE - 1

\* the flow control of the direction endpoint e sends in, on a send
IpcFlowRefuses(e) ==
    IpcEnqueueStep(e) =>
        IF IpcInFlight(e) = IPCQ_DEFAULT_SIZE - 1
        THEN /\ ipc'.res[e].berr = ERR_QUEUE_FULL
             /\ ipc'.q[e] = ipc.q[e] /\ ipc'.mem = ipc.mem
        ELSE /\ ipc'.res[e].berr = ERR_OK
             /\ ipc'.q[e].tx_seq = ipc.q[e].tx_seq + 1

\* C20: IPC flow control: in every reachable state of an IPC channel, for
\* each direction, 0 <= tx_seq - tx_ack <= N-1 = 63, tx_ack being the value
\* the peer last published; a send is refused with QUEUE_FULL exactly when
\* tx_seq - tx_ack = N-1 and accepted otherwise.
C20_FlowControl ==
    /\ [](\A e \in Endpoints : IpcFlowBounded(e))
    /\ [][\A e \in Endpoints : IpcFlowRefuses(e)]_vars

\* C20 witness: the creator has taken what lies behind the mapping for a
\* message of the joiner and published an ack beyond the joiner's tx_seq,
\* and the joiner's send has been refused with QUEUE_FULL on an empty ring
C20_Witness ==
    /\ IpcInFlight("joiner") < 0
    /\ ipc.q["joiner"].tx_seq = 1
    /\ ipc.res["joiner"].op = "enqueue"
    /\ ipc.res["joiner"].berr = ERR_QUEUE_FULL

\* C10: after the joiner has registered a region and, with the creator
\* dequeuing nothing, enqueued 63 buffers that all returned OK, the next
\* enqueue returns QUEUE_FULL; after the creator then dequeues one
\* descriptor, the same enqueue succeeds.
C10_FillAndDrain ==
    LET r == ipc.res["joiner"]
    IN  /\ (/\ ipc.phase["joiner"] = "filling"
            /\ r.op = "enqueue"
            /\ ipc.q["creator"].rx_seq = 1)
              => r.err = IF ipc.nenq["joiner"] <= IPCQ_DEFAULT_SIZE - 1
                         THEN ERR_OK ELSE ERR_QUEUE_FULL
        /\ (r.op = "enqueue" /\ r.retry) => r.err = ERR_OK

\* C10 witness: the joiner has registered a region and enqueued buffers only,
\* the creator has dequeued nothing, and the 62nd enqueue has returned
\* QUEUE_FULL
C10_Witness ==
    /\ ipc.phase["joiner"] = "filling"
    /\ ipc.q["creator"].rx_seq = 1
    /\ ipc.res["joiner"].op = "enqueue" /\ ipc.res["joiner"].err = ERR_QUEUE_FULL
    /\ ipc.nenq["joiner"] = IPCQ_DEFAULT_SIZE - 2
    /\ Len(ipc.sent["joiner"]) = IPCQ_DEFAULT_SIZE - 3

(***************************************************************************)
(* The debug wrapper (debug_queue.c).  Its lists are kept as in the code:  *)
(* blocks of two slab allocators (slab.c), linked by pointers.  A pointer  *)
(* is the number of a block, NULL is 0.                                    *)
(***************************************************************************)
NULL == 0

\* the number of struct memory_ele and of struct memory_list blocks of the
\* slab allocators that the model holds
DbgEles == 5
DbgLists == 3

\* struct memory_ele and struct memory_list, zeroed
ZeroEle == [offset |-> 0, length |-> 0, next |-> NULL, prev |-> NULL]
ZeroList == [rid |-> 0, length |-> 0, not_consistent |-> FALSE, buffers |-> NULL, next |-> NULL]

\* cleanq_debugq_create: no regions, both slab allocators hold their blocks
\* in the order of their addresses, my_q has a pool of its own
cleanq_debugq_create(region_offset) ==
    [regions    |-> NULL,
     lists      |-> [i \in 1..DbgLists |-> ZeroList],
     eles       |-> [i \in 1..DbgEles |-> ZeroEle],
     alloc      |-> [i \in 1..DbgEles |-> i],
     alloc_list |-> [i \in 1..DbgLists |-> i],
     pool       |-> region_pool_init(region_offset),
     \* the process was ended by a NULL dereference or a failed assert
     fault      |-> FALSE]

\* slab_alloc on que->alloc: [w, id]; the top block of the free list, zeroed
slab_alloc_ele(w) ==
    [w  |-> [w EXCEPT !.alloc = Tail(@), !.eles[Head(w.alloc)] = ZeroEle],
     id |-> Head(w.alloc)]

\* slab_alloc on que->alloc_list
slab_alloc_list(w) ==
    [w  |-> [w EXCEPT !.alloc_list = Tail(@), !.lists[Head(w.alloc_list)] = ZeroList],
     id |-> Head(w.alloc_list)]

\* slab_free on que->alloc: the block goes on top of the free list, its
\* first word (the offset) becomes the link to the block below
slab_free_ele(w, id) ==
    [w EXCEPT !.alloc = <<id>> \o @,
              !.eles[id].offset = IF w.alloc = <<>> THEN NULL ELSE Head(w.alloc)]

\* slab_free on que->alloc_list: the first word of a list, the rid, becomes
\* the link
slab_free_list(w, id) ==
    [w EXCEPT !.alloc_list = <<id>> \o @,
              !.lists[id].rid = IF w.alloc_list = <<>> THEN NULL ELSE Head(w.alloc_list)]

\* the process ends
DbgFault(w) == [w EXCEPT !.fault = TRUE]

\* a buffer_in_bounds that does not compare the ends
buffer_in_bounds_Mutant(offset_b1, len_b1, offset_b2, len_b2) ==
    /\ offset_b1 >= offset_b2
    /\ len_b1 <= len_b2

\* buffer_in_bounds: is b1 in bounds of b2?
buffer_in_bounds(offset_b1, len_b1, offset_b2, len_b2) ==
    /\ offset_b1 >= offset_b2
    /\ len_b1 <= len_b2
    /\ AddW(offset_b1, len_b1) <= AddW(offset_b2, len_b2)

\* find_region: the first list with this rid, NULL if there is none
RECURSIVE FindRegionFrom(_, _, _)
FindRegionFrom(w, region, rid) ==
    IF region = NULL THEN NULL
    ELSE IF w.lists[region].rid = rid THEN region
    ELSE FindRegionFrom(w, w.lists[region].next, rid)
find_region(w, rid) == FindRegionFrom(w, w.regions, rid)

\* a remove_split_buffer that shortens the free range by the length of the
\* buffer wherever in the range the buffer lies
remove_split_buffer_Mutant(w, region, buffer, offset, length) ==
    [w EXCEPT !.eles[buffer].length = SubW(@, length)]

\* remove_split_buffer: takes the enqueued buffer out of the free range
\* that contains it
remove_split_buffer(w, region, buffer, offset, length) ==
    LET b == w.eles[buffer]
    IN  IF b.offset = offset
        THEN \* cut off the beginning
             LET b1 == [b EXCEPT !.offset = AddW(@, length), !.length = SubW(@, length)]
                 w1 == [w EXCEPT !.eles[buffer] = b1]
                 w2 == IF b1.prev # NULL
                       THEN [w1 EXCEPT !.eles[b1.prev].next = b1.next]
                       ELSE [w1 EXCEPT !.lists[region].buffers = b1.next]
                 w3 == IF b1.next # NULL
                       THEN [w2 EXCEPT !.eles[b1.next].prev = b1.prev]
                       ELSE w2
             IN  IF b1.length = 0 THEN slab_free_ele(w3, buffer) ELSE w1
        ELSE IF AddW(b.offset, b.length) = AddW(offset, length)
        THEN \* cut off the end
             LET b1 == [b EXCEPT !.length = SubW(@, length)]
                 \* buffer->prev = buffer->next
                 b2 == IF b1.prev # NULL THEN [b1 EXCEPT !.prev = b1.next] ELSE b1
                 w1 == [w EXCEPT !.eles[buffer] = b1]
                 w2 == [w EXCEPT !.eles[buffer] = b2]
                 w3 == IF b2.next # NULL
                       THEN [w2 EXCEPT !.eles[b2.next].prev = b2.prev]
                       ELSE w2
             IN  IF b1.length = 0 THEN slab_free_ele(w3, buffer) ELSE w1
        ELSE \* split: the range keeps the part before the buffer, a new
             \* range after it takes the rest
             LET old_len == b.length
                 blen    == SubW(offset, b.offset)
                 a       == slab_alloc_ele(w)
                 after   == [offset |-> AddW(AddW(b.offset, blen), length),
                             length |-> SubW(SubW(old_len, blen), length),
                             prev   |-> buffer,
                             next   |-> b.next]
                 w1      == [a.w EXCEPT !.eles[buffer].length = blen,
                                        !.eles[a.id] = after]
                 w2      == IF b.next # NULL
                            THEN [w1 EXCEPT !.eles[b.next].prev = a.id]
                            ELSE w1
             IN  [w2 EXCEPT !.eles[buffer].next = a.id]

\* insert_merge_buffer: puts the dequeued buffer before or after the free
\* range buffer, merging it with the neighbouring ranges
insert_merge_buffer(w, region, buffer, offset, length) ==
    LET b == w.eles[buffer]
    IN  IF offset >= AddW(b.offset, b.length)
        THEN \* insert after
             IF AddW(b.offset, length) = offset
             THEN LET w1   == [w EXCEPT !.eles[buffer].length = AddW(@, length)]
                      b1   == w1.eles[buffer]
                      next == b1.next
                      w2   == [w1 EXCEPT !.eles[buffer].length = AddW(@, w1.eles[next].length)]
                      nn   == w2.eles[next].next
                      \* buffer->next = buffer->next->next;
                      \* buffer->next->next->prev = buffer
                      w3   == [w2 EXCEPT !.eles[buffer].next = nn]
                      nnn  == w3.eles[nn].next
                  IN  IF next # NULL /\ AddW(b1.offset, b1.length) = w1.eles[next].offset
                      THEN IF nn # NULL
                           THEN IF nnn = NULL THEN DbgFault(w3)
                                ELSE slab_free_ele([w3 EXCEPT !.eles[nnn].prev = buffer], next)
                           ELSE slab_free_ele(w2, next)
                      ELSE w1
             ELSE IF b.next # NULL /\ w.eles[b.next].offset = AddW(offset, length)
             THEN [w EXCEPT !.eles[b.next].offset = offset,
                            !.eles[b.next].length = AddW(@, length)]
             ELSE IF b.next = NULL /\ AddW(b.offset, b.length) = offset
             THEN [w EXCEPT !.eles[buffer].length = AddW(@, length)]
             ELSE \* insert in between
                  LET a  == slab_alloc_ele(w)
                      w1 == [a.w EXCEPT !.eles[a.id] =
                                [offset |-> offset, length |-> length,
                                 next |-> b.next, prev |-> buffer]]
                      w2 == IF b.next # NULL
                            THEN [w1 EXCEPT !.eles[b.next].prev = a.id]
                            ELSE w1
                  IN  [w2 EXCEPT !.eles[buffer].next = a.id]
        ELSE \* insert before
             IF b.offset = AddW(offset, length)
             THEN LET w1   == [w EXCEPT !.eles[buffer].length = AddW(@, length),
                                        !.eles[buffer].offset = offset]
                      b1   == w1.eles[buffer]
                      prev == b1.prev
                      w2   == [w1 EXCEPT !.eles[prev].length = AddW(@, b1.length),
                                         !.eles[prev].next = b1.next]
                      w3   == IF b1.next # NULL
                              THEN [w2 EXCEPT !.eles[b1.next].prev = prev]
                              ELSE w2
                  IN  IF prev # NULL
                         /\ AddW(w1.eles[prev].offset, w1.eles[prev].length) = b1.offset
                      THEN slab_free_ele(w3, buffer)
                      ELSE w1
             ELSE IF b.prev # NULL
                     /\ AddW(w.eles[b.prev].offset, w.eles[b.prev].length) = offset
             THEN [w EXCEPT !.eles[b.prev].length =
                       AddW(AddW(@, IF length = 0 THEN 2048 ELSE 0), length)]
             ELSE \* insert in between
                  LET a  == slab_alloc_ele(w)
                      w1 == [a.w EXCEPT !.eles[a.id] =
                                [offset |-> offset, length |-> length,
                                 next |-> buffer, prev |-> b.prev]]
                      w2 == IF b.prev # NULL
                            THEN [w1 EXCEPT !.eles[b.prev].next = a.id]
                            ELSE [w1 EXCEPT !.lists[region].buffers = a.id]
                  IN  [w2 EXCEPT !.eles[buffer].prev = a.id]

\* the last list of que->regions
RECURSIVE DbgLastList(_, _)
DbgLastList(w, ele) ==
    IF w.lists[ele].next = NULL THEN ele ELSE DbgLastList(w, w.lists[ele].next)

\* a new list for region rid whose one free range is [0, length), appended
\* to que->regions (debug_register, and debug_dequeue for an unknown rid)
DbgAppendRegion(w, rid, length, not_consistent) ==
    LET l  == slab_alloc_list(w)
        a  == slab_alloc_ele(l.w)
        w1 == [a.w EXCEPT !.lists[l.id] =
                  [rid |-> rid, length |-> length, not_consistent |-> not_consistent,
                   buffers |-> a.id, next |-> NULL],
                          !.eles[a.id] =
                  [offset |-> 0, length |-> length, next |-> NULL, prev |-> NULL]]
    IN  IF w.regions = NULL
        THEN [w1 EXCEPT !.regions = l.id]
        ELSE [w1 EXCEPT !.lists[DbgLastList(w, w.regions)].next = l.id]

\* debug_register: [w, err]; inner_err is what the register of the wrapped
\* queue returns
debug_register(w, cap, rid, inner_err) ==
    IF err_is_fail(inner_err) THEN [w |-> w, err |-> inner_err]
    ELSE [w |-> DbgAppendRegion(w, rid, cap.len, FALSE), err |-> ERR_OK]

\* the walk of debug_deregister: the list before the first list after ele
\* that has this rid, NULL if there is none
RECURSIVE DbgListBefore(_, _, _)
DbgListBefore(w, ele, rid) ==
    IF w.lists[ele].next = NULL THEN NULL
    ELSE IF w.lists[w.lists[ele].next].rid = rid THEN ele
    ELSE DbgListBefore(w, w.lists[ele].next, rid)

\* debug_deregister: [w, err]; inner_err is what the deregister of the
\* wrapped queue returns. The region is given up only when its free list is
\* the one range [0, length); the test reads through region->buffers, which
\* is NULL when the whole region is in flight
debug_deregister(w, rid, inner_err) ==
    LET head   == w.regions
        before == IF head = NULL \/ w.lists[head].rid = rid THEN NULL
                  ELSE DbgListBefore(w, head, rid)
        region == IF head = NULL THEN NULL
                  ELSE IF w.lists[head].rid = rid THEN head
                  ELSE IF before = NULL THEN NULL
                  ELSE w.lists[before].next
        buffer == w.lists[region].buffers
        w1     == IF before = NULL
                  THEN [w EXCEPT !.regions = w.lists[region].next]
                  ELSE [w EXCEPT !.lists[before].next = w.lists[region].next]
    IN  IF region = NULL THEN [w |-> w, err |-> ERR_INVALID_REGION_ID]
        ELSE IF buffer = NULL THEN [w |-> DbgFault(w), err |-> "none"]
        ELSE IF /\ w.eles[buffer].offset = 0
                /\ w.eles[buffer].length = w.lists[region].length
                /\ w.eles[buffer].next = NULL
        THEN IF err_is_fail(inner_err) THEN [w |-> w, err |-> inner_err]
             ELSE [w |-> slab_free_list(slab_free_ele(w1, buffer), region), err |-> ERR_OK]
        ELSE [w |-> w, err |-> ERR_REGION_DESTROY]

\* the first free range from buffer on that contains the buffer to enqueue
RECURSIVE DbgOwningRange(_, _, _, _)
DbgOwningRange(w, buffer, offset, length) ==
    IF buffer = NULL THEN NULL
    ELSE IF buffer_in_bounds(offset, length, w.eles[buffer].offset, w.eles[buffer].length)
    THEN buffer
    ELSE DbgOwningRange(w, w.eles[buffer].next, offset, length)

\* debug_enqueue forwards the buffer to the wrapped queue
DebugEnqueueForwards(w, d) ==
    /\ d.length > 0
    /\ find_region(w, d.rid) # NULL
    /\ DbgOwningRange(w, w.lists[find_region(w, d.rid)].buffers, d.offset, d.length) # NULL

\* a debug_enqueue that takes the buffer out of the free list before it
\* looks at what the wrapped queue returned
debug_enqueue_Mutant(w, d, inner_err) ==
    LET region == find_region(w, d.rid)
        buffer == DbgOwningRange(w, w.lists[region].buffers, d.offset, d.length)
    IN  IF d.length = 0 THEN [w |-> DbgFault(w), err |-> "none"]
        ELSE IF region = NULL THEN [w |-> w, err |-> ERR_INVALID_REGION_ID]
        ELSE IF w.lists[region].buffers = NULL
        THEN [w |-> w, err |-> ERR_BUFFER_ALREADY_IN_USE]
        ELSE IF buffer = NULL THEN [w |-> w, err |-> ERR_INVALID_BUFFER_ARGS]
        ELSE [w   |-> remove_split_buffer(w, region, buffer, d.offset, d.length),
              err |-> inner_err]

\* debug_enqueue: [w, err]; inner_err is what the enqueue of the wrapped
\* queue returns when the buffer is forwarded
debug_enqueue(w, d, inner_err) ==
    LET region == find_region(w, d.rid)
        buffer == DbgOwningRange(w, w.lists[region].buffers, d.offset, d.length)
    IN  IF d.length = 0 THEN [w |-> DbgFault(w), err |-> "none"]   \* assert(length > 0)
        ELSE IF region = NULL THEN [w |-> w, err |-> ERR_INVALID_REGION_ID]
        ELSE IF w.lists[region].buffers = NULL
        THEN [w |-> w, err |-> ERR_BUFFER_ALREADY_IN_USE]
        ELSE IF buffer = NULL THEN [w |-> w, err |-> ERR_INVALID_BUFFER_ARGS]
        ELSE IF err_is_fail(inner_err) THEN [w |-> w, err |-> inner_err]
        ELSE [w   |-> remove_split_buffer(w, region, buffer, d.offset, d.length),
              err |-> ERR_OK]

\* the free range debug_dequeue hands to insert_merge_buffer: the first one
\* that starts above offset, the last one if there is none
RECURSIVE DbgInsertPoint(_, _, _)
DbgInsertPoint(w, buffer, offset) ==
    IF w.eles[buffer].next = NULL THEN buffer
    ELSE IF offset >= w.eles[buffer].offset
    THEN DbgInsertPoint(w, w.eles[buffer].next, offset)
    ELSE buffer

\* debug_dequeue, after the wrapped queue has returned inner_err and the
\* buffer d: [w, err]
debug_dequeue(w, d, inner_err) ==
    LET region == find_region(w, d.rid)
        end    == AddW(d.offset, d.length)
        first  == w.lists[w.regions].buffers
        \* memset(que->regions->buffers, 0, sizeof(ele->next)) clears the
        \* first word of the first free range of the first region
        wset   == [w EXCEPT !.eles[first].offset = 0]
        wlen   == IF w.lists[region].not_consistent /\ end > w.lists[region].length
                  THEN [w EXCEPT !.lists[region].length = end]
                  ELSE w
        head   == wlen.lists[region].buffers
        a      == slab_alloc_ele(wlen)
        buffer == DbgInsertPoint(wlen, head, d.offset)
    IN  IF err_is_fail(inner_err) THEN [w |-> w, err |-> inner_err]
        ELSE IF region = NULL
        THEN IF w.regions = NULL
             THEN [w |-> DbgAppendRegion(w, d.rid, end, TRUE), err |-> ERR_OK]
             ELSE IF first = NULL THEN [w |-> DbgFault(w), err |-> "none"]
             ELSE [w |-> DbgAppendRegion(wset, d.rid, end, TRUE), err |-> ERR_OK]
        ELSE IF head = NULL
        THEN [w   |-> [a.w EXCEPT !.lists[region].buffers = a.id,
                                  !.eles[a.id] = [offset |-> d.offset, length |-> d.length,
                                                  next |-> NULL, prev |-> NULL]],
              err |-> ERR_OK]
        ELSE IF ~ buffer_in_bounds(d.offset, d.length,
                                   wlen.eles[buffer].offset, wlen.eles[buffer].length)
        THEN [w   |-> insert_merge_buffer(wlen, region, buffer, d.offset, d.length),
              err |-> ERR_OK]
        ELSE [w |-> wlen, err |-> ERR_BUFFER_NOT_IN_USE]

(***************************************************************************)
(* Specification SpecDebug: one endpoint, the frontend on a debug wrapper  *)
(* that wraps a loopback queue (tests/echoserver/client.c, main).          *)
(***************************************************************************)
\* number of frontend calls explored after the initial state
DbgMaxOps == 5

\* capabilities offered to register
DbgCaps == {Cap(0, 0, 8), Cap(1, 8, 4)}

\* the region the initial states are built with
DbgCap0 == Cap(0, 0, 8)

\* buffers offered to enqueue, <<offset, length>>: of different lengths, and
\* the whole region
DbgShapes == {<<2, 2>>, <<1, 1>>, <<4, 4>>, <<0, 8>>, <<0, 2>>}
DbgDescInputs(p) ==
    {Desc(r.id, sh[1], sh[2], 0, sh[2], 0) : r \in PoolRegions(p), sh \in DbgShapes}
        \cup {Desc(r.id + INIT_POOL_SIZE, 2, 2, 0, 2, 0) : r \in PoolRegions(p)}

\* the slab allocators of the model hold the blocks a call may allocate
DbgBlocksLeft(w) == Len(w.alloc) > 0 /\ Len(w.alloc_list) > 0

\* cleanq_register on a debug wrapper: [w, err, rid]; inner_err is what the
\* register of the wrapped queue returns
DbgDoRegister(w, cap, inner_err) ==
    LET r == region_pool_add_region(w.pool, cap)
        g == debug_register([w EXCEPT !.pool = r.pool], cap, r.rid, inner_err)
    IN  IF err_is_fail(r.err) THEN [w |-> w, err |-> r.err, rid |-> 0]
        ELSE [w |-> g.w, err |-> g.err, rid |-> r.rid]

\* cleanq_deregister on a debug wrapper: [w, err]; the region leaves the
\* pool of the wrapper before debug_deregister is asked
DbgDoDeregister(w, rid, inner_err) ==
    LET r == cleanq_deregister(w.pool, rid, ERR_OK)
        g == debug_deregister([w EXCEPT !.pool = r.pool], rid, inner_err)
    IN  IF ~ r.invoked THEN [w |-> w, err |-> r.err]
        ELSE g

\* cleanq_enqueue on a debug wrapper: [w, err]
DbgDoEnqueue(w, d, inner_err) ==
    IF ~ CheckDesc(w.pool, d) THEN [w |-> w, err |-> ERR_INVALID_BUFFER_ARGS]
    ELSE debug_enqueue(w, d, inner_err)

\* cleanq_dequeue on a debug wrapper: [w, err]
DbgDoDequeue(w, d, inner_err) ==
    LET g == debug_dequeue(w, d, inner_err)
    IN  [w |-> g.w, err |-> IF g.err = "none" THEN "none"
                            ELSE cleanq_dequeue_err(g.w.pool, d, g.err)]

\* the free ranges of a list, first to last
RECURSIVE DbgRangesFrom(_, _, _)
DbgRangesFrom(w, buffer, fuel) ==
    IF buffer = NULL \/ fuel = 0 THEN <<>>
    ELSE <<w.eles[buffer]>> \o DbgRangesFrom(w, w.eles[buffer].next, fuel - 1)
DbgRanges(w, region) == DbgRangesFrom(w, w.lists[region].buffers, DbgEles)

\* the lists of que->regions
RECURSIVE DbgListsFrom(_, _, _)
DbgListsFrom(w, region, fuel) ==
    IF region = NULL \/ fuel = 0 THEN {}
    ELSE {region} \cup DbgListsFrom(w, w.lists[region].next, fuel - 1)
DbgRegions(w) == DbgListsFrom(w, w.regions, DbgLists)

\* the free list of region rid as the wrapper holds it: the <<offset,
\* length>> of its ranges, first to last
DbgFreeList(w, rid) ==
    LET region == find_region(w, rid)
        ranges == IF region = NULL THEN <<>> ELSE DbgRanges(w, region)
    IN  [i \in 1..Len(ranges) |-> <<ranges[i].offset, ranges[i].length>>]

\* ghost: the round trip of a buffer, from its enqueue ("enq") to the
\* dequeue that follows and returns it ("deq"), with the free list of its
\* region before the enqueue, after it, and after the dequeue
RoundTrip(stage, d, err, before, mid, after) ==
    [stage |-> stage, d |-> d, err |-> err, before |-> before, mid |-> mid, after |-> after]
NoRoundTrip == RoundTrip("none", ZeroDesc, ERR_OK, <<>>, <<>>, <<>>)

DbgInit ==
    \E ro \in RegionOffsets, registered \in BOOLEAN :
        LET w0 == cleanq_debugq_create(ro)
            w1 == DbgDoRegister(w0, DbgCap0, ERR_OK).w
        IN  /\ dbg = [e \in Endpoints |-> IF e = LbE /\ registered THEN w1 ELSE w0]
            /\ lq = loopback_queue_create
            /\ pool = [e \in Endpoints |-> region_pool_init(0)]
            /\ enqOk = EmptyBag
            /\ deqOk = EmptyBag
            /\ res = NoCall
            /\ nops = 0
            /\ cyc = NoRoundTrip
            /\ ff = NoQueue /\ ipc = NoQueue

\* cleanq_register on the wrapper (loopback_register returns OK)
DbgRegister(cap) ==
    LET r == DbgDoRegister(dbg[LbE], cap, ERR_OK)
    IN  /\ nops < DbgMaxOps /\ ~ dbg[LbE].fault /\ DbgBlocksLeft(dbg[LbE])
        /\ dbg' = [dbg EXCEPT ![LbE] = r.w]
        /\ res' = Call("register", r.err, ZeroDesc, cap, r.rid)
        /\ nops' = nops + 1
        /\ cyc' = NoRoundTrip
        /\ UNCHANGED <<pool, lq, enqOk, deqOk, ff, ipc>>

\* the region ids offered to deregister: those of the pool of the wrapper
\* and those of its lists
DbgRidInputs(w) ==
    {r.id : r \in PoolRegions(w.pool)} \cup {w.lists[l].rid : l \in DbgRegions(w)}

\* cleanq_deregister on the wrapper (loopback_deregister returns OK)
DbgDeregister(rid) ==
    LET r == DbgDoDeregister(dbg[LbE], rid, ERR_OK)
    IN  /\ nops < DbgMaxOps /\ ~ dbg[LbE].fault /\ DbgBlocksLeft(dbg[LbE])
        /\ dbg' = [dbg EXCEPT ![LbE] = r.w]
        /\ res' = Call("deregister", r.err, ZeroDesc, NoCap, rid)
        /\ nops' = nops + 1
        /\ cyc' = NoRoundTrip
        /\ UNCHANGED <<pool, lq, enqOk, deqOk, ff, ipc>>

\* cleanq_enqueue on the wrapper
DbgEnqueue(d) ==
    LET w   == dbg[LbE]
        fwd == CheckDesc(w.pool, d) /\ DebugEnqueueForwards(w, d)
        b   == loopback_enqueue(lq, d)
        r   == DbgDoEnqueue(w, d, b.err)
    IN  /\ nops < DbgMaxOps /\ ~ w.fault /\ DbgBlocksLeft(w)
        /\ dbg' = [dbg EXCEPT ![LbE] = r.w]
        /\ lq' = IF fwd THEN b.lq ELSE lq
        /\ enqOk' = IF r.err = ERR_OK THEN enqOk (+) BagOf(d, 1) ELSE enqOk
        /\ res' = Call("enqueue", r.err, d, NoCap, d.rid)
        /\ nops' = nops + 1
        /\ cyc' = IF r.err = ERR_OK
                  THEN RoundTrip("enq", d, ERR_OK, DbgFreeList(w, d.rid),
                                 DbgFreeList(r.w, d.rid), <<>>)
                  ELSE NoRoundTrip
        /\ UNCHANGED <<pool, deqOk, ff, ipc>>

\* cleanq_dequeue on the wrapper
DbgDequeue ==
    LET w == dbg[LbE]
        b == loopback_dequeue(lq)
        r == DbgDoDequeue(w, b.d, b.err)
    IN  /\ nops < DbgMaxOps /\ ~ w.fault /\ DbgBlocksLeft(w)
        /\ dbg' = [dbg EXCEPT ![LbE] = r.w]
        /\ lq' = b.lq
        /\ deqOk' = IF r.err = ERR_OK THEN deqOk (+) BagOf(b.d, 1) ELSE deqOk
        /\ res' = Call("dequeue", r.err, b.d, NoCap, b.d.rid)
        /\ nops' = nops + 1
        /\ cyc' = IF cyc.stage = "enq" /\ b.err = ERR_OK /\ b.d = cyc.d
                  THEN [cyc EXCEPT !.stage = "deq", !.err = r.err,
                                   !.after = DbgFreeList(r.w, b.d.rid)]
                  ELSE NoRoundTrip
        /\ UNCHANGED <<pool, enqOk, ff, ipc>>

DbgNext ==
    \/ \E cap \in DbgCaps : DbgRegister(cap)
    \/ \E rid \in DbgRidInputs(dbg[LbE]) : DbgDeregister(rid)
    \/ \E d \in DbgDescInputs(dbg[LbE].pool) : DbgEnqueue(d)
    \/ DbgDequeue

SpecDebug == DbgInit /\ [][DbgNext]_vars

\* the sum of the lengths of a sequence of ranges or descriptors
RECURSIVE SumLengths(_)
SumLengths(s) == IF s = <<>> THEN 0 ELSE Head(s).length + SumLengths(Tail(s))

\* the buffers of region rid that are in the loopback queue: enqueued and
\* not yet dequeued
DbgInFlight(rid) == SelectSeq(LoopbackContent(lq), LAMBDA d : d.rid = rid)

\* C5: for every consistent region of the wrapper, the lengths of the free
\* ranges and the lengths of the buffers enqueued and not yet dequeued add
\* up to the length of the region.
C5_Conservation ==
    \A region \in DbgRegions(dbg[LbE]) :
        ~ dbg[LbE].lists[region].not_consistent =>
            SumLengths(DbgRanges(dbg[LbE], region))
                + SumLengths(DbgInFlight(dbg[LbE].lists[region].rid))
              = dbg[LbE].lists[region].length

\* what is left of the free ranges s when the first one that contains
\* [off, off+len) gives it up: its non-empty remainders in its place
RECURSIVE SplitRanges(_, _, _)
SplitRanges(s, off, len) ==
    IF s = <<>> THEN <<>>
    ELSE LET r == Head(s)
             endr == r[1] + r[2]
         IN  IF r[1] <= off /\ off + len <= endr
             THEN (IF off > r[1] THEN <<(<<r[1], off - r[1]>>)>> ELSE <<>>)
                     \o (IF endr > off + len THEN <<(<<off + len, endr - (off + len)>>)>>
                         ELSE <<>>)
                     \o Tail(s)
             ELSE <<r>> \o SplitRanges(Tail(s), off, len)

\* from buffer on, every range of the list has the range before it as its
\* prev
RECURSIVE DbgLinkedFrom(_, _, _, _)
DbgLinkedFrom(w, prev, buffer, fuel) ==
    \/ buffer = NULL
    \/ /\ fuel > 0
       /\ w.eles[buffer].prev = prev
       /\ DbgLinkedFrom(w, buffer, w.eles[buffer].next, fuel - 1)

\* the free list of region rid is linked in both directions
DbgLinked(w, rid) ==
    find_region(w, rid) # NULL
        /\ DbgLinkedFrom(w, NULL, w.lists[find_region(w, rid)].buffers, DbgEles)

DbgUnowned(w, d) ==
    /\ CheckDesc(w.pool, d) /\ d.length > 0
    /\ find_region(w, d.rid) # NULL
    /\ \A i \in 1..Len(DbgFreeList(w, d.rid)) :
          LET r == DbgFreeList(w, d.rid)[i]
          IN  ~ (r[1] <= d.offset /\ d.offset + d.length <= r[1] + r[2])

\* the step is an enqueue through the wrapper of a buffer that is unowned
DbgUnownedEnqueue ==
    /\ nops' = nops + 1
    /\ res'.op = "enqueue"
    /\ DbgUnowned(dbg[LbE], res'.d)

DbgRegistered(w, rid) ==
    /\ \E r \in PoolRegions(w.pool) : r.id = rid
    /\ find_region(w, rid) # NULL

\* C17: through the frontend of a debug wrapper over loopback, deregister(R)
\* while a buffer of R enqueued by this endpoint has not yet been dequeued
\* returns REGION_DESTROY and leaves R registered; once every buffer
\* enqueued has been dequeued with OK, deregister(R) returns OK.
C17_DeregisterInFlight ==
    [][(nops' = nops + 1 /\ res'.op = "deregister"
           /\ DbgRegistered(dbg[LbE], res'.rid))
          => /\ DbgInFlight(res'.rid) # <<>> =>
                   /\ res'.err = ERR_REGION_DESTROY
                   /\ DbgRegistered(dbg'[LbE], res'.rid)
             /\ (DbgInFlight(res'.rid) = <<>> /\ enqOk = deqOk) =>
                   res'.err = ERR_OK]_vars

\* C17 witness: deregister(R) with a buffer of R in the wrapped queue has
\* returned REGION_DESTROY, and R, which the lists of the wrapper still
\* hold, is no longer in its pool
C17_Witness ==
    /\ res.op = "deregister" /\ res.err = ERR_REGION_DESTROY
    /\ DbgInFlight(res.rid) # <<>>
    /\ find_region(dbg[LbE], res.rid) # NULL
    /\ \A r \in PoolRegions(dbg[LbE].pool) : r.id # res.rid

\* the buffers a and b share no byte
DbgDisjoint(a, b) ==
    a.rid # b.rid \/ a.offset + a.length <= b.offset \/ b.offset + b.length <= a.offset

\* the buffer d lies in a region that is registered with the wrapper w
DbgInRegistered(w, d) ==
    /\ DbgRegistered(w, d.rid)
    /\ \E r \in RegionsWithId(w.pool, d.rid) : d.length > 0 /\ d.offset + d.length <= r.len

\* the wrapper holds the regions of its pool and no other, and what the
\* wrapped queue holds was enqueued as the claim has it: pairwise disjoint
\* buffers of registered regions, and nothing else was ever enqueued that
\* has not come back
DbgCleanFlight ==
    LET f == LoopbackContent(lq)
        w == dbg[LbE]
    IN  /\ \A l \in DbgRegions(w) :
              /\ \E r \in RegionsWithId(w.pool, w.lists[l].rid) : r.len = w.lists[l].length
              /\ \A k \in DbgRegions(w) : k # l => w.lists[k].rid # w.lists[l].rid
        /\ \A i \in 1..Len(f) : DbgInRegistered(dbg[LbE], f[i])
        /\ \A i, j \in 1..Len(f) : i # j => DbgDisjoint(f[i], f[j])
        /\ \A d \in BagToSet(enqOk) :
              CopiesIn(d, enqOk) = CopiesIn(d, deqOk)
                  + Len(SelectSeq(f, LAMBDA x : x = d))

\* C23: through a debug wrapper over loopback, after any sequence in which
\* the endpoint enqueues pairwise disjoint buffers of a region it registered
\* and later dequeues every one of them, no enqueue or dequeue has returned
\* an error other than QUEUE_FULL or QUEUE_EMPTY, the free list of the
\* region is again the single range {0, region.length}, and deregister of
\* the region returns OK.
C23_AllReturned ==
    [][(nops' = nops + 1 /\ DbgCleanFlight) =>
          /\ (/\ res'.op = "enqueue"
              /\ DbgInRegistered(dbg[LbE], res'.d)
              /\ \A i \in 1..Len(LoopbackContent(lq)) :
                    DbgDisjoint(res'.d, LoopbackContent(lq)[i]))
                => res'.err \in {ERR_OK, ERR_QUEUE_FULL}
          /\ res'.op = "dequeue" => res'.err \in {ERR_OK, ERR_QUEUE_EMPTY}
          /\ (/\ res'.op = "deregister"
              /\ DbgRegistered(dbg[LbE], res'.rid)
              /\ DbgInFlight(res'.rid) = <<>>)
                => /\ DbgFreeList(dbg[LbE], res'.rid)
                        = <<(<<0, dbg[LbE].lists[find_region(dbg[LbE], res'.rid)].length>>)>>
                   /\ res'.err = ERR_OK]_vars

\* C23 witness: two disjoint buffers of a registered region were enqueued
\* with OK, the first has come back with OK, and the dequeue of the second
\* has returned BUFFER_NOT_IN_USE
C23_Witness ==
    /\ res.op = "dequeue" /\ res.err = ERR_BUFFER_NOT_IN_USE
    /\ DbgInRegistered(dbg[LbE], res.d)
    /\ CopiesIn(res.d, enqOk) = 1
    /\ BagCardinality(enqOk) = 2 /\ BagCardinality(deqOk) = 1
    /\ \A a \in BagToSet(enqOk), b \in BagToSet(enqOk) : a # b => DbgDisjoint(a, b)
    /\ lq.num_ele = 0

\* the call the step makes through the wrapper returns what the same call
\* returns on the wrapped queue used directly, with the pool the caller's
\* earlier calls have left: the same error, the same dequeued tuple, the same
\* region id, and the same change of the queue and of the pool
DbgSameAsDirect ==
    LET w == dbg[LbE]
        e == loopback_enqueue(lq, res'.d)
        b == loopback_dequeue(lq)
        g == cleanq_register(w.pool, res'.cap, ERR_OK)
        u == cleanq_deregister(w.pool, res'.rid, ERR_OK)
    IN  /\ res'.op = "enqueue" =>
              /\ res'.err = cleanq_enqueue_err(w.pool, res'.d, e.err)
              /\ lq' = IF EnqueueInvokesBackend(w.pool, res'.d) THEN e.lq ELSE lq
              /\ dbg'[LbE].pool = w.pool
        /\ res'.op = "dequeue" =>
              /\ res'.err = cleanq_dequeue_err(w.pool, b.d, b.err)
              /\ res'.d = b.d
              /\ lq' = b.lq
              /\ dbg'[LbE].pool = w.pool
        /\ res'.op = "register" =>
              /\ res'.err = g.err /\ res'.rid = g.rid
              /\ lq' = lq
              /\ dbg'[LbE].pool = g.pool
        /\ res'.op = "deregister" =>
              /\ res'.err = u.err
              /\ lq' = lq
              /\ dbg'[LbE].pool = u.pool

\* the call of the step is one the claim of transparency covers: what is in
\* flight was enqueued disjointly, an enqueue is of a buffer the caller owns
\* and a deregister is of a region with nothing in flight
DbgOwnedCall ==
    /\ nops' = nops + 1
    /\ DbgCleanFlight
    /\ res'.op = "enqueue" =>
          /\ DbgInRegistered(dbg[LbE], res'.d)
          /\ \A i \in 1..Len(LoopbackContent(lq)) :
                DbgDisjoint(res'.d, LoopbackContent(lq)[i])
    /\ res'.op = "deregister" =>
          /\ DbgRegistered(dbg[LbE], res'.rid)
          /\ DbgInFlight(res'.rid) = <<>>

\* C24: the debug wrapper is transparent: for every sequence of register,
\* enqueue, dequeue and deregister calls in which the caller only enqueues
\* buffers it owns and only deregisters regions with nothing in flight, the
\* return codes and dequeued tuples observed through a debug wrapper stacked
\* on a queue equal those observed when the same calls are made on that
\* queue directly.
C24_Transparent == [][DbgOwnedCall => DbgSameAsDirect]_vars

\* C24 witness: after two enqueues of disjoint buffers and one dequeue, the
\* wrapped queue has handed out the second buffer, which a dequeue on it
\* directly returns with OK, and the wrapper has returned BUFFER_NOT_IN_USE
C24_Witness ==
    /\ res.op = "dequeue" /\ res.err = ERR_BUFFER_NOT_IN_USE
    /\ cleanq_dequeue_err(dbg[LbE].pool, res.d, ERR_OK) = ERR_OK
    /\ CopiesIn(res.d, enqOk) = 1 /\ CopiesIn(res.d, deqOk) = 0
    /\ BagCardinality(enqOk) = 2 /\ BagCardinality(deqOk) = 1
    /\ lq.num_ele = 0 /\ lq.tail = 2

\* the ids of the blocks of the free list of a region, first to last
RECURSIVE DbgChainFrom(_, _, _)
DbgChainFrom(w, buffer, fuel) ==
    IF buffer = NULL \/ fuel = 0 THEN <<>>
    ELSE <<buffer>> \o DbgChainFrom(w, w.eles[buffer].next, fuel - 1)
DbgChain(w, region) == DbgChainFrom(w, w.lists[region].buffers, DbgEles + 1)

\* the free list of a region is ordered by strictly increasing offset, its
\* ranges neither overlap nor touch, each has a length > 0 and lies within
\* the region, and prev and next match, the first one having no prev
DbgListWellFormed(w, region) ==
    LET c == DbgChain(w, region)
    IN  /\ Len(c) <= DbgEles
        /\ \A i \in 1..Len(c) :
              /\ w.eles[c[i]].length > 0
              /\ w.eles[c[i]].offset + w.eles[c[i]].length <= w.lists[region].length
              /\ w.eles[c[i]].prev = IF i = 1 THEN NULL ELSE c[i - 1]
              /\ i < Len(c) =>
                    w.eles[c[i]].offset + w.eles[c[i]].length < w.eles[c[i + 1]].offset

\* C33: after any sequence of debug-wrapper operations, including dequeues
\* of arbitrary descriptors delivered by a peer, every region's free-range
\* list is ordered by strictly increasing offset, adjacent nodes neither
\* overlap nor touch, every node has length > 0 and lies within
\* [0, region.length), and the prev/next links are mutually consistent with
\* region->buffers pointing at the first node.
C33_ListsWellFormed ==
    \A e \in Endpoints :
        ~ dbg[e].fault =>
            \A region \in DbgRegions(dbg[e]) : DbgListWellFormed(dbg[e], region)

\* C5 witness: buffers of different lengths have been enqueued, one of them
\* has been dequeued while another is still in the queue, and the free
\* list holds more than one range
C5_Witness ==
    /\ res.op = "dequeue" /\ res.err = ERR_OK
    /\ \E d \in BagToSet(enqOk) : d.length # res.d.length
    /\ lq.num_ele > 0
    /\ \E region \in DbgRegions(dbg[LbE]) : Len(DbgRanges(dbg[LbE], region)) > 1

(***************************************************************************)
(* Specification SpecDebugChan: an IPC channel with a debug wrapper on     *)
(* each endpoint.  The creator registers regions and enqueues buffers of   *)
(* them; the joiner dequeues, makes the regions it is told of known to its *)
(* wrapper (cleanq_debugq_add_region) and enqueues buffers back.           *)
(***************************************************************************)
\* number of frontend calls explored after the initial state
DcMaxOps == 4

\* buffers offered to enqueue, <<offset, length>>
DcShapes == {<<2, 2>>, <<0, 2>>, <<4, 4>>}
DcDescInputs(p) ==
    {Desc(r.id, sh[1], sh[2], 0, sh[2], 0) : r \in PoolRegions(p), sh \in DcShapes}

\* cleanq_register on the wrapper of endpoint e; st is [dbg, ipc, pool, res].
\* ipcq_register waits until it can send: the call is taken when it can
DcDoRegister(st, e, cap) ==
    LET w == st.dbg[e]
        a == region_pool_add_region(w.pool, cap)
        c == ipcq_register_cmd(cap, a.rid)
        r == ipcq_enqueue_internal(st.ipc.q[e], st.ipc.mem, IpcDescBuf(c), c.cmd)
        g == DbgDoRegister(w, cap, r.err)
    IN  IF err_is_fail(a.err)
        THEN [st EXCEPT !.res = Call("register", a.err, ZeroDesc, cap, 0)]
        ELSE [st EXCEPT !.dbg[e] = g.w,
                        !.ipc.q[e] = r.q,
                        !.ipc.mem = r.mem,
                        !.res = Call("register", g.err, ZeroDesc, cap, g.rid)]

\* cleanq_enqueue on the wrapper of endpoint e
DcDoEnqueue(st, e, d) ==
    LET w   == st.dbg[e]
        fwd == CheckDesc(w.pool, d) /\ DebugEnqueueForwards(w, d)
        r   == ipcq_enqueue_internal(st.ipc.q[e], st.ipc.mem, d, 0)
        g   == DbgDoEnqueue(w, d, r.err)
    IN  [st EXCEPT !.dbg[e] = g.w,
                   !.ipc.q[e] = IF fwd THEN r.q ELSE @,
                   !.ipc.mem = IF fwd THEN r.mem ELSE @,
                   !.res = Call("enqueue", g.err, d, NoCap, d.rid)]

\* cleanq_dequeue on the wrapper of endpoint e; oob is what a read outside
\* of the mapping gives
DcDoDequeue(st, e, oob) ==
    LET w == st.dbg[e]
        q == st.ipc.q[e]
        r == ipcq_dequeue(q, st.ipc.mem, st.pool[e], oob)
        g == DbgDoDequeue(w, r.d, r.err)
    IN  IF ipcq_get_rx_desc_tail(q) >= IPCQ_MEM_MSGS /\ oob.fault
        THEN [st EXCEPT !.ipc.pc[e] = "fault",
                        !.res = Call("dequeue", "none", ZeroDesc, NoCap, 0)]
        ELSE [st EXCEPT !.dbg[e] = g.w,
                        !.ipc.q[e] = r.q,
                        !.ipc.mem = r.mem,
                        !.pool[e] = r.pool,
                        !.res = Call("dequeue", g.err, r.d, NoCap, r.d.rid)]

\* cleanq_debugq_add_region on the wrapper of endpoint e
DcDoAddRegion(st, e, cap, rid) ==
    LET a == region_pool_add_region_with_id(st.dbg[e].pool, cap, rid)
    IN  [st EXCEPT !.dbg[e].pool = a.pool,
                   !.res = Call("add_region", a.err, ZeroDesc, cap, rid)]

DcInit ==
    \E ro \in RegionOffsets, registered \in BOOLEAN :
        LET st0 == [dbg  |-> [e \in Endpoints |->
                                 cleanq_debugq_create(IF e = "creator" THEN ro ELSE 0)],
                    ipc  |-> IpcCreated,
                    pool |-> [e \in Endpoints |-> region_pool_init(0)],
                    res  |-> NoCall]
            st1 == IF registered THEN DcDoRegister(st0, "creator", DbgCap0) ELSE st0
        IN  /\ dbg = st1.dbg
            /\ ipc = st1.ipc
            /\ pool = st1.pool
            /\ res = NoCall
            /\ nops = 0
            /\ lq = loopback_queue_create
            /\ enqOk = EmptyBag
            /\ deqOk = EmptyBag
            /\ cyc = NoCycle
            /\ ff = NoQueue

\* endpoint e is running and the model holds blocks for its call
DcCanCall(e) ==
    /\ nops < DcMaxOps
    /\ ipc.pc[e] = "idle" /\ ~ dbg[e].fault
    /\ DbgBlocksLeft(dbg[e])

DcStep(st) ==
    /\ dbg' = st.dbg
    /\ ipc' = st.ipc
    /\ pool' = st.pool
    /\ res' = st.res
    /\ nops' = nops + 1
    /\ UNCHANGED <<lq, enqOk, deqOk, cyc, ff>>

DcState == [dbg |-> dbg, ipc |-> ipc, pool |-> pool, res |-> res]

DcRegister(cap) ==
    /\ DcCanCall("creator")
    /\ ipcq_can_send(ipc.q["creator"], ipc.mem)
    /\ DcStep(DcDoRegister(DcState, "creator", cap))

DcEnqueue(e, d) ==
    /\ DcCanCall(e)
    /\ DcStep(DcDoEnqueue(DcState, e, d))

DcDequeue(e, oob) ==
    /\ DcCanCall(e)
    /\ DcStep(DcDoDequeue(DcState, e, oob))

\* the joiner adds a region its queue has been told of to its wrapper
DcAddRegion(r) ==
    /\ DcCanCall("joiner")
    /\ DcStep(DcDoAddRegion(DcState, "joiner", Cap(0, r.base_addr, r.len), r.id))

DcNext ==
    \/ \E cap \in DbgCaps : DcRegister(cap)
    \/ \E e \in Endpoints : \E d \in DcDescInputs(dbg[e].pool) : DcEnqueue(e, d)
    \/ \E e \in Endpoints : \E oob \in IpcOobReads : DcDequeue(e, oob)
    \/ \E r \in PoolRegions(pool["joiner"]) : DcAddRegion(r)

SpecDebugChan == DcInit /\ [][DcNext]_vars

\* the bytes of region rid that the wrapper of endpoint e holds as free
DcFreeBytes(e, rid) ==
    LET region == find_region(dbg[e], rid)
        s      == DbgRanges(dbg[e], region)
    IN  IF region = NULL THEN {}
        ELSE UNION {{b \in 0..OffMax : s[i].offset <= b /\ b < s[i].offset + s[i].length}
                        : i \in 1..Len(s)}

\* the data descriptors endpoint e has written to its ring and the peer has
\* not acknowledged
DcInFlight(e) ==
    LET q   == ipc.q[e]
        ack == ipc.mem[q.tx_seq_ack]
    IN  {x \in {ipc.mem[q.tx_descs + (s % q.slots)] :
                    s \in {y \in 1..(q.tx_seq - 1) : y >= ack}} : x.cmd = 0}

\* the bytes of region rid in flight on the channel
DcInFlightBytes(rid) ==
    UNION {{b \in 0..OffMax : x.offset <= b /\ b < x.offset + x.length}
              : x \in {y \in DcInFlight("creator") \cup DcInFlight("joiner") : y.rid = rid}}

\* the region ids the wrappers know
DcRids ==
    UNION {{dbg[e].lists[region].rid : region \in DbgRegions(dbg[e])} : e \in Endpoints}

\* C4: no byte of a region is in the free ranges of both wrappers, and no
\* byte is both in a free range and in a descriptor in flight on the channel.
C4_ExclusiveOwnership ==
    \A rid \in DcRids :
        /\ DcFreeBytes("creator", rid) \cap DcFreeBytes("joiner", rid) = {}
        /\ (DcFreeBytes("creator", rid) \cup DcFreeBytes("joiner", rid))
               \cap DcInFlightBytes(rid) = {}

\* C4 witness: the creator has enqueued a buffer of a region it registered
\* and the joiner has dequeued it through its wrapper
C4_Witness ==
    /\ res.op = "dequeue" /\ res.err = ERR_OK
    /\ find_region(dbg["creator"], res.d.rid) # NULL
    /\ find_region(dbg["joiner"], res.d.rid) # NULL
    /\ ~ dbg["creator"].lists[find_region(dbg["creator"], res.d.rid)].not_consistent


(***************************************************************************)
(* A debug wrapper at the joiner of an FF channel: the creator uses its FF *)
(* queue directly, the joiner dequeues through the wrapper and never       *)
(* registers a region.                                                     *)
(***************************************************************************)
DfE == "joiner"

\* cleanq_debugq_add_region: the region goes into the pool of the wrapper
cleanq_debugq_add_region(w, cap, rid) ==
    [w EXCEPT !.pool = region_pool_add_region_with_id(@, cap, rid).pool]

DfInit ==
    \E ro \in RegionOffsets :
        /\ pool = [e \in Endpoints |->
                      IF e = "creator" THEN region_pool_init(0) ELSE region_pool_init(ro)]
        /\ ff = FfCreated
        /\ dbg = [e \in Endpoints |-> cleanq_debugq_create(ro)]
        /\ lq = loopback_queue_create
        /\ enqOk = EmptyBag
        /\ deqOk = EmptyBag
        /\ res = NoCall
        /\ nops = 0
        /\ cyc = NoCycle
        /\ ipc = NoQueue

\* the joiner adds a region its FF queue has been told of to its wrapper,
\* between two calls or from the register callback of the FF queue
DfAddRegion(r) ==
    /\ \/ ff.pc[DfE].op = "idle"
       \/ ff.pc[DfE].op = "recv" /\ ff.pc[DfE].step = 0
    /\ \A x \in PoolRegions(dbg[DfE].pool) : x.id # r.id
    /\ dbg' = [dbg EXCEPT ![DfE] =
                  cleanq_debugq_add_region(@, Cap(0, r.base_addr, r.len), r.id)]
    /\ res' = Call("add_region", ERR_OK, ZeroDesc, Cap(0, r.base_addr, r.len), r.id)
    /\ UNCHANGED <<pool, ff, lq, enqOk, deqOk, nops, cyc, ipc>>

\* the last step of the ffq_impl_recv that debug_dequeue has called through
\* ff_dequeue: a command is handled and the receive goes on; a data
\* descriptor goes back to debug_dequeue and from there to cleanq_dequeue
\* on the wrapper
DfRecvClear ==
    /\ ff.pc[DfE].op = "recv" /\ ff.pc[DfE].step = 7
    /\ DbgBlocksLeft(dbg[DfE])
    /\ LET r == FfRecvCleared(DfE)
           d == r.ff.res[DfE].d
           g == DbgDoDequeue(dbg[DfE], d, ERR_OK)
       IN  /\ ff' = r.ff
           /\ pool' = r.pool
           /\ IF r.ff.pc[DfE].op = "idle"
              THEN /\ dbg' = [dbg EXCEPT ![DfE] = g.w]
                   /\ res' = Call("dequeue", g.err, d, NoCap, d.rid)
                   /\ nops' = nops + 1
              ELSE UNCHANGED <<dbg, res, nops>>
    /\ UNCHANGED <<lq, enqOk, deqOk, cyc, ipc>>

DfNext ==
    \/ \E cap \in FfCaps("creator") : FfRegister("creator", cap)
    \/ \E d \in FfDescInputs("creator") : FfEnqueue("creator", d)
    \/ \E rid \in FfRids("creator") : FfDeregister("creator", rid)
    \/ FfSendStep("creator")
    \/ FfRecvCheck(DfE)
    \/ FfRecvCopy(DfE)
    \/ DfRecvClear
    \/ \E r \in PoolRegions(pool[DfE]) : DfAddRegion(r)

SpecDebugFF == DfInit /\ [][DfNext]_vars

\* the step returns, through the wrapper of the joiner, a buffer of a region
\* the wrapper holds no node for
DfFirstDequeue ==
    /\ nops' = nops + 1
    /\ res'.op = "dequeue"
    /\ find_region(dbg[DfE], res'.rid) = NULL

\* the wrapper w holds a node for region rid that is flagged not consistent
DfNotConsistent(w, rid) ==
    /\ find_region(w, rid) # NULL
    /\ w.lists[find_region(w, rid)].not_consistent

\* C18 as stated: when the joiner never calls register and the creator
\* registers a region over FF and enqueues a buffer of it, a dequeue through
\* the debug wrapper of the joiner returns OK for that buffer, never
\* INVALID_REGION_ID, and the wrapper then holds a node for that rid flagged
\* not consistent.
C18_PeerRegion ==
    [][DfFirstDequeue =>
          /\ res'.err = ERR_OK
          /\ DfNotConsistent(dbg'[DfE], res'.rid)]_vars

\* C18 amended: such a dequeue returns OK when the joiner has added the
\* region to its wrapper with cleanq_debugq_add_region and the buffer lies
\* inside it, and INVALID_BUFFER_ARGS otherwise; in both cases it never
\* returns INVALID_REGION_ID and the wrapper then holds a node for that rid
\* flagged not consistent.
C18_PeerRegionAdded ==
    [][DfFirstDequeue =>
          /\ res'.err = IF CheckDesc(dbg[DfE].pool, res'.d)
                        THEN ERR_OK ELSE ERR_INVALID_BUFFER_ARGS
          /\ DfNotConsistent(dbg'[DfE], res'.rid)]_vars

\* C18 witness: the creator has registered a region and enqueued a buffer
\* of it, the joiner, whose wrapper was told of the region, has dequeued
\* the buffer with OK, and its wrapper holds the not consistent node
C18_Witness ==
    /\ ff.registered["creator"] /\ ~ ff.registered["joiner"]
    /\ res.op = "dequeue" /\ res.err = ERR_OK
    /\ res.d \in {ff.recv[DfE][i] : i \in 1..Len(ff.recv[DfE])}
    /\ CheckDesc(pool["creator"], res.d)
    /\ DfNotConsistent(dbg[DfE], res.rid)
    /\ DbgFreeList(dbg[DfE], res.rid) = <<(<<0, res.d.offset + res.d.length>>)>>


(***************************************************************************)
(* The creation of an FF channel: the mapping before, between and after    *)
(* the two calls of cleanq_ffq_create. ffq_impl_init_tx and                *)
(* ffq_impl_init_rx take a fourth parameter init, and the two calls in     *)
(* cleanq_ffq_create (ff_queue.c:394, 397) pass three arguments: the value *)
(* of init is a parameter of the calls here.                               *)
(***************************************************************************)
\* the slots of a new shared memory object after ftruncate, and after
\* memset(buf, 0, FFQ_MEM_SIZE)
FcZeroRing == [i \in 0..(FFQ_DEFAULT_SIZE - 1) |-> <<0, 0, 0, 0, 0, 0>>]

\* the loop of ffq_impl_init_tx / ffq_impl_init_rx
ffq_impl_init_slots(slots, init) ==
    IF init THEN [i \in DOMAIN slots |-> [slots[i] EXCEPT ![1] = FFQ_SLOT_EMPTY]]
    ELSE slots

\* cleanq_ffq_create: the rings after the call; clear is false in the
\* endpoint that did not create the memory object
cleanq_ffq_create_rings(ring, creator, clear, init) ==
    LET m == IF creator /\ clear THEN [r \in 0..1 |-> FcZeroRing] ELSE ring
    IN  [r \in 0..1 |-> ffq_impl_init_slots(m[r], init)]

\* number of sends and receives explored per endpoint
FcMaxCalls == 2

FcInit ==
    /\ ff = [ring  |-> [r \in 0..1 |-> FcZeroRing],
             \* the endpoints that have created their queue, with the value
             \* of init their calls passed
             made  |-> {},
             init  |-> [e \in Endpoints |-> FALSE],
             txpos |-> [e \in Endpoints |-> 0],
             rxpos |-> [e \in Endpoints |-> 0],
             n     |-> [e \in Endpoints |-> 0],
             \* ghost: per ring, the number of messages sent and not received
             pubs  |-> [r \in 0..1 |-> 0],
             \* the last call: its endpoint and what it returned
             last  |-> [op |-> "none", e |-> "creator", err |-> ERR_OK]]
    /\ pool = [e \in Endpoints |-> region_pool_init(0)]
    /\ lq = loopback_queue_create
    /\ enqOk = EmptyBag
    /\ deqOk = EmptyBag
    /\ res = NoCall
    /\ nops = 0
    /\ cyc = NoCycle
    /\ ipc = NoQueue /\ dbg = NoQueue

\* cleanq_ffq_create: the first endpoint to call it creates the memory
\* object, the other one joins
FcCreate(e, clear, init) ==
    /\ e \notin ff.made
    /\ e = "joiner" => "creator" \in ff.made
    /\ ff' = [ff EXCEPT !.ring = cleanq_ffq_create_rings(ff.ring, e = "creator", clear, init),
                        !.made = @ \cup {e},
                        !.init[e] = init,
                        !.last = [op |-> "create", e |-> e, err |-> ERR_OK]]
    /\ UNCHANGED <<pool, lq, enqOk, deqOk, res, nops, cyc, ipc, dbg>>

\* ffq_impl_send of one message
FcSend(e) ==
    LET q == [ring |-> FfTxRing(e), pos |-> ff.txpos[e]]
    IN  /\ e \in ff.made /\ ff.n[e] < FcMaxCalls
        /\ IF ffq_impl_can_send(ff, q)
           THEN ff' = [ff EXCEPT !.ring[q.ring][q.pos] = <<1, 0, 0, 0, 0, 0>>,
                                 !.txpos[e] = (@ + 1) % FFQ_DEFAULT_SIZE,
                                 !.pubs[q.ring] = @ + 1,
                                 !.n[e] = @ + 1,
                                 !.last = [op |-> "enqueue", e |-> e, err |-> ERR_OK]]
           ELSE ff' = [ff EXCEPT !.n[e] = @ + 1,
                                 !.last = [op |-> "enqueue", e |-> e, err |-> ERR_QUEUE_FULL]]
        /\ UNCHANGED <<pool, lq, enqOk, deqOk, res, nops, cyc, ipc, dbg>>

\* ffq_impl_recv of one message
FcRecv(e) ==
    LET q == [ring |-> FfRxRing(e), pos |-> ff.rxpos[e]]
    IN  /\ e \in ff.made /\ ff.n[e] < FcMaxCalls
        /\ IF ffq_impl_can_recv(ff, q)
           THEN ff' = [ff EXCEPT !.ring[q.ring][q.pos][1] = FFQ_SLOT_EMPTY,
                                 !.rxpos[e] = (@ + 1) % FFQ_DEFAULT_SIZE,
                                 !.pubs[q.ring] = IF @ > 0 THEN @ - 1 ELSE 0,
                                 !.n[e] = @ + 1,
                                 !.last = [op |-> "dequeue", e |-> e, err |-> ERR_OK]]
           ELSE ff' = [ff EXCEPT !.n[e] = @ + 1,
                                 !.last = [op |-> "dequeue", e |-> e, err |-> ERR_QUEUE_EMPTY]]
        /\ UNCHANGED <<pool, lq, enqOk, deqOk, res, nops, cyc, ipc, dbg>>

FcNext ==
    \E e \in Endpoints :
        \/ \E clear, init \in BOOLEAN : FcCreate(e, clear, init)
        \/ FcSend(e)
        \/ FcRecv(e)

SpecFFCreate == FcInit /\ [][FcNext]_vars

\* word 0 of every slot of both rings is FFQ_SLOT_EMPTY
FcAllEmpty(f) ==
    \A r \in 0..1 : \A i \in 0..(FFQ_DEFAULT_SIZE - 1) : f.ring[r][i][1] = FFQ_SLOT_EMPTY

\* the step is as the initial state of the channel requires: the create of
\* the creator leaves every slot empty, the create of the joiner changes no
\* slot, a dequeue from a ring that holds no message returns QUEUE_EMPTY and
\* an enqueue into a ring that holds none is accepted
FcStepAsRequired ==
    /\ (ff'.last.op = "create" /\ ff'.made = {"creator"}) => FcAllEmpty(ff')
    /\ (ff'.last.op = "create" /\ ff'.made = Endpoints /\ ff.made = {"creator"})
          => ff'.ring = ff.ring
    /\ (ff'.n # ff.n /\ ff'.last.op = "dequeue" /\ ff.pubs[FfRxRing(ff'.last.e)] = 0)
          => ff'.last.err = ERR_QUEUE_EMPTY
    /\ (ff'.n # ff.n /\ ff'.last.op = "enqueue" /\ ff.pubs[FfTxRing(ff'.last.e)] = 0)
          => ff'.last.err = ERR_OK

\* the values of init the calls made so far have passed
FcInitIsCreator(f) == \A e \in f.made : f.init[e] = (e = "creator")
FcInitIsTrue(f) == \A e \in f.made : f.init[e]
FcInitIsFalse(f) == \A e \in f.made : ~ f.init[e]

\* with init passed as true by the creator and as false by the joiner every
\* step is as required
FcCreatorInitialises == [][FcInitIsCreator(ff') => FcStepAsRequired]_vars

\* with init passed as true by both, or as false by both, some step is not
FcBothInitialise == [][FcInitIsTrue(ff') => FcStepAsRequired]_vars
FcNoneInitialises == [][FcInitIsFalse(ff') => FcStepAsRequired]_vars

\* the creator has sent a message and the joiner has then joined and
\* received it
FcReceivedAfterJoin ==
    /\ ff.made = Endpoints /\ FcInitIsCreator(ff)
    /\ ff.last = [op |-> "dequeue", e |-> "joiner", err |-> ERR_OK]
    /\ ff.n["creator"] >= 1


(***************************************************************************)
(* The IPC channel with every access to the shared mapping a step of its   *)
(* own: ipcq_enqueue writes the fields of the descriptor in two groups and *)
(* then its seq, ipcq_dequeue reads the seq, copies the fields in two      *)
(* groups and then publishes the ack. Data descriptors only.               *)
(***************************************************************************)
\* number of calls explored after the initial state
IwMaxCalls == 5

\* the descriptor with all fields v
IwBuf(v) == Desc(v, v, v, v, v, v)

\* the descriptor the creator sends as number s in the run to the initial
\* state
IwFillBuf(s) == IwBuf(1 + (s % 2))

\* the creator enqueues the descriptors k .. n
RECURSIVE IwFill(_, _, _)
IwFill(i, k, n) ==
    IF i.n >= 0 /\ k > n THEN i
    ELSE LET r == ipcq_enqueue_internal(i.q["creator"], i.mem, IwFillBuf(k), 0)
         IN  IwFill([i EXCEPT !.q["creator"] = r.q, !.mem = r.mem,
                              !.exp["creator"] = Append(@, IwFillBuf(k))], k + 1, n)

\* the numbers of descriptors the creator has sent in the initial states
IwFills == {0, IPCQ_DEFAULT_SIZE - 2}

IwCreated ==
    [mem |-> IpcMemCreated,
     q   |-> [e \in Endpoints |-> cleanq_ipcq_create(e = "creator")],
     \* "idle", in ipcq_enqueue before the first group ("w1"), the second
     \* group ("w2") or the seq ("w3") is written, in ipcq_dequeue before the
     \* first group ("r1") or the second ("r2") is copied or the ack is
     \* published ("r3"), or "fault"
     pc  |-> [e \in Endpoints |-> "idle"],
     \* the descriptor of the call in progress
     buf |-> [e \in Endpoints |-> ZeroDesc],
     res |-> [e \in Endpoints |-> [op |-> "none", err |-> ERR_OK, d |-> ZeroDesc, seq |-> 0]],
     \* ghost: the descriptors ipcq_enqueue has sent, by sequence number
     exp |-> [e \in Endpoints |-> <<>>],
     n   |-> 0]

IwInit ==
    \E n \in IwFills :
        /\ ipc = IwFill(IwCreated, 1, n)
        /\ pool = [e \in Endpoints |-> region_pool_init(0)]
        /\ lq = loopback_queue_create
        /\ enqOk = EmptyBag
        /\ deqOk = EmptyBag
        /\ res = NoCall
        /\ nops = 0
        /\ cyc = NoCycle
        /\ ff = NoQueue /\ dbg = NoQueue

IwStep(i) ==
    /\ ipc' = i
    /\ UNCHANGED <<pool, lq, enqOk, deqOk, res, nops, cyc, ff, dbg>>

\* ipcq_get_tx_desc_head
ipcq_get_tx_desc_head(q) == q.tx_descs + (q.tx_seq % q.slots)

\* ipcq_enqueue: ipcq_can_send
IwEnqueue(e, v) ==
    /\ ipc.pc[e] = "idle" /\ ipc.n < IwMaxCalls
    /\ IF ipcq_can_send(ipc.q[e], ipc.mem)
       THEN IwStep([ipc EXCEPT !.pc[e] = "w1", !.buf[e] = IwBuf(v), !.n = @ + 1])
       ELSE IwStep([ipc EXCEPT !.n = @ + 1,
                               !.res[e] = [op |-> "enqueue", err |-> ERR_QUEUE_FULL,
                                           d |-> IwBuf(v), seq |-> 0]])

\* ipcq_enqueue_internal: head->rid, head->offset, head->length
IwWriteFirst(e) ==
    LET h == ipcq_get_tx_desc_head(ipc.q[e])
        d == ipc.buf[e]
    IN  /\ ipc.pc[e] = "w1"
        /\ IwStep([ipc EXCEPT !.pc[e] = "w2",
                              !.mem[h].rid = d.rid,
                              !.mem[h].offset = d.offset,
                              !.mem[h].length = d.length])

\* ipcq_enqueue_internal: head->valid_data, head->valid_length, head->flags,
\* head->cmd
IwWriteSecond(e) ==
    LET h == ipcq_get_tx_desc_head(ipc.q[e])
        d == ipc.buf[e]
    IN  /\ ipc.pc[e] = "w2"
        /\ IwStep([ipc EXCEPT !.pc[e] = "w3",
                              !.mem[h].valid_data = d.valid_data,
                              !.mem[h].valid_length = d.valid_length,
                              !.mem[h].flags = d.flags,
                              !.mem[h].cmd = 0])

\* ipcq_enqueue_internal: the barrier, head->seq and q->tx_seq++
IwWriteSeq(e) ==
    LET h == ipcq_get_tx_desc_head(ipc.q[e])
    IN  /\ ipc.pc[e] = "w3"
        /\ IwStep([ipc EXCEPT !.pc[e] = "idle",
                              !.mem[h].seq = ipc.q[e].tx_seq,
                              !.q[e].tx_seq = @ + 1,
                              !.exp[e] = Append(@, ipc.buf[e]),
                              !.res[e] = [op |-> "enqueue", err |-> ERR_OK,
                                          d |-> ipc.buf[e], seq |-> ipc.q[e].tx_seq]])

\* the descriptor a read at the tail gives
IwTail(e, oob) == IpcTailDesc(ipc.q[e], ipc.mem, oob)
IwTailFaults(e, oob) == ipcq_get_rx_desc_tail(ipc.q[e]) >= IPCQ_MEM_MSGS /\ oob.fault

\* ipcq_dequeue: ipcq_can_recv and the test of tail->cmd
IwDequeue(e, oob) ==
    /\ ipc.pc[e] = "idle" /\ ipc.n < IwMaxCalls
    /\ IF IwTailFaults(e, oob)
       THEN IwStep([ipc EXCEPT !.pc[e] = "fault", !.n = @ + 1])
       ELSE IF ipc.q[e].rx_seq <= IwTail(e, oob).seq /\ IwTail(e, oob).cmd = 0
       THEN IwStep([ipc EXCEPT !.pc[e] = "r1", !.buf[e] = ZeroDesc, !.n = @ + 1])
       ELSE IwStep([ipc EXCEPT !.n = @ + 1,
                               !.res[e] = [op |-> "dequeue", err |-> ERR_QUEUE_EMPTY,
                                           d |-> ZeroDesc, seq |-> 0]])

\* ipcq_dequeue: tail->rid, tail->offset, tail->length
IwCopyFirst(e, oob) ==
    LET t == IwTail(e, oob)
    IN  /\ ipc.pc[e] = "r1"
        /\ IF IwTailFaults(e, oob) THEN IwStep([ipc EXCEPT !.pc[e] = "fault"])
           ELSE IwStep([ipc EXCEPT !.pc[e] = "r2",
                                   !.buf[e].rid = t.rid,
                                   !.buf[e].offset = t.offset,
                                   !.buf[e].length = t.length])

\* ipcq_dequeue: tail->valid_data, tail->valid_length, tail->flags
IwCopySecond(e, oob) ==
    LET t == IwTail(e, oob)
    IN  /\ ipc.pc[e] = "r2"
        /\ IF IwTailFaults(e, oob) THEN IwStep([ipc EXCEPT !.pc[e] = "fault"])
           ELSE IwStep([ipc EXCEPT !.pc[e] = "r3",
                                   !.buf[e].valid_data = t.valid_data,
                                   !.buf[e].valid_length = t.valid_length,
                                   !.buf[e].flags = t.flags])

\* ipcq_dequeue: q->rx_seq++ and q->rx_seq_ack->value = q->rx_seq
IwPublishAck(e) ==
    /\ ipc.pc[e] = "r3"
    /\ IwStep([ipc EXCEPT !.pc[e] = "idle",
                          !.q[e].rx_seq = @ + 1,
                          !.mem[ipc.q[e].rx_seq_ack] = ipc.q[e].rx_seq + 1,
                          !.res[e] = [op |-> "dequeue", err |-> ERR_OK,
                                      d |-> ipc.buf[e], seq |-> ipc.q[e].rx_seq]])

IwNext ==
    \E e \in Endpoints :
        \/ \E v \in {1, 2} : IwEnqueue(e, v)
        \/ IwWriteFirst(e)
        \/ IwWriteSecond(e)
        \/ IwWriteSeq(e)
        \/ \E oob \in IpcOobReads : IwDequeue(e, oob)
        \/ \E oob \in IpcOobReads : IwCopyFirst(e, oob)
        \/ \E oob \in IpcOobReads : IwCopySecond(e, oob)
        \/ IwPublishAck(e)

SpecIPCWords == IwInit /\ [][IwNext]_vars

\* endpoint e is writing a slot its peer has not finished copying: the slot
\* holds the descriptor the peer is to receive next or a later one
IwWritesEarly(e) ==
    /\ ipc.pc[e] \in {"w1", "w2", "w3"}
    /\ ipc.q[e].tx_seq - ipc.q[e].slots >= ipc.q[Peer(e)].rx_seq

\* the fields of the slot at address a, without its seq
IwSlotBuf(a) == IpcDescBuf(ipc.mem[a])

\* every slot of the ring endpoint e sends in that carries a sequence number
\* holds the fields sent under that number, unless a later descriptor is
\* being written into it
IwSeqWrittenLast(e) ==
    \A a \in IpcTxRing(e) :
        (ipc.mem[a].seq >= 1
            /\ ~ (ipc.pc[e] \in {"w2", "w3"} /\ a = ipcq_get_tx_desc_head(ipc.q[e])))
        => /\ ipc.mem[a].seq <= Len(ipc.exp[e])
           /\ IwSlotBuf(a) = ipc.exp[e][ipc.mem[a].seq]

\* the last dequeue of endpoint e, if it returned OK, returned the fields
\* its peer sent for the sequence number it was at
IwDequeuedWhole(e) ==
    (ipc.res[e].op = "dequeue" /\ ipc.res[e].err = ERR_OK)
        => /\ ipc.res[e].seq <= Len(ipc.exp[Peer(e)])
           /\ ipc.res[e].d = ipc.exp[Peer(e)][ipc.res[e].seq]

\* C31: the producer writes seq after all other fields of a descriptor, and
\* it never writes into slot tx_seq mod (N-1) while that slot still holds a
\* descriptor the consumer has not finished copying; hence every IPC dequeue
\* that returns OK returns exactly the fields the producer wrote for
\* sequence number rx_seq, under every interleaving.
C31_DescriptorsWhole ==
    \A e \in Endpoints :
        /\ IwSeqWrittenLast(e)
        /\ ~ IwWritesEarly(e)
        /\ IwDequeuedWhole(e)

\* C31 witness: the joiner has sent a descriptor, and a dequeue of the
\* creator, reading behind the mapping, has returned OK with fields the
\* joiner has not sent
C31_Witness ==
    /\ Len(ipc.exp["joiner"]) >= 1
    /\ ipc.res["creator"].op = "dequeue" /\ ipc.res["creator"].err = ERR_OK
    /\ ipc.res["creator"].seq = 1
    /\ ipc.res["creator"].d # ipc.exp["joiner"][1]

\* the direction from the creator to the joiner
IwToJoinerWhole ==
    /\ IwSeqWrittenLast("creator")
    /\ ~ IwWritesEarly("creator")
    /\ IwDequeuedWhole("joiner")

\* the creator is writing the slot of a descriptor the joiner has received
\* before, while the joiner is copying the descriptor of the next slot
IwRingReused ==
    /\ ipc.pc["creator"] \in {"w2", "w3"}
    /\ ipc.q["creator"].tx_seq > ipc.q["creator"].slots
    /\ ipc.pc["joiner"] \in {"r1", "r2", "r3"}


(***************************************************************************)
(* The debug wrapper on a queue that may refuse an enqueue: the calls of   *)
(* SpecDebug, and enqueues the wrapped queue answers with QUEUE_FULL, as a *)
(* queue whose ring is full does.                                          *)
(***************************************************************************)
\* cleanq_enqueue on the wrapper when the enq of the wrapped queue, if it is
\* called, returns QUEUE_FULL and takes nothing
DiEnqueueRefused(d) ==
    LET w == dbg[LbE]
        r == DbgDoEnqueue(w, d, ERR_QUEUE_FULL)
    IN  /\ nops < DbgMaxOps /\ ~ w.fault /\ DbgBlocksLeft(w)
        /\ dbg' = [dbg EXCEPT ![LbE] = r.w]
        /\ res' = Call("enqueue", r.err, d, NoCap, d.rid)
        /\ nops' = nops + 1
        /\ cyc' = RoundTrip("refused", d, ERR_QUEUE_FULL, DbgFreeList(w, d.rid),
                            DbgFreeList(r.w, d.rid), <<>>)
        /\ UNCHANGED <<pool, lq, enqOk, deqOk, ff, ipc>>

DiNext ==
    \/ \E cap \in DbgCaps : DbgRegister(cap)
    \/ \E rid \in DbgRidInputs(dbg[LbE]) : DbgDeregister(rid)
    \/ \E d \in DbgDescInputs(dbg[LbE].pool) : DbgEnqueue(d)
    \/ DbgDequeue
    \/ \E d \in DbgDescInputs(dbg[LbE].pool) : DiEnqueueRefused(d)

SpecDebugInner == DbgInit /\ [][DiNext]_vars

\* the free lists of all regions of wrapper w, by rid
DiFreeLists(w) ==
    {<<w.lists[l].rid, DbgFreeList(w, w.lists[l].rid)>> : l \in DbgRegions(w)}

\* the step is a cleanq_enqueue on the wrapper
DiEnqueueCall == nops' = nops + 1 /\ res'.op = "enqueue"

\* the step is an enqueue of a buffer the wrapper owns, which it forwards
DiForwarded == DiEnqueueCall /\ CheckDesc(dbg[LbE].pool, res'.d) /\ DebugEnqueueForwards(dbg[LbE], res'.d)

\* C32: when the debug wrapper forwards an owned enqueue and the inner
\* backend returns an error (e.g. QUEUE_FULL), the wrapper returns that same
\* error and leaves the free-range lists of all regions unchanged; the
\* range is removed or split only when the inner enqueue returned OK.
C32_RefusedEnqueue ==
    [][/\ (DiForwarded /\ cyc'.stage = "refused")
            => /\ res'.err = cyc'.err
               /\ dbg'[LbE] = dbg[LbE]
       /\ (DiEnqueueCall /\ DiFreeLists(dbg'[LbE]) # DiFreeLists(dbg[LbE]))
            => /\ DiForwarded
               /\ cyc'.stage = "enq"
               /\ res'.err = ERR_OK]_vars

\* C32 witness: with a buffer in flight and two free ranges left, an enqueue
\* of a buffer inside the second range was forwarded and refused with
\* QUEUE_FULL, and the free list is as before
C32_Witness ==
    /\ res.op = "enqueue" /\ res.err = ERR_QUEUE_FULL
    /\ cyc.stage = "refused"
    /\ Len(cyc.before) = 2
    /\ cyc.mid = cyc.before
    /\ CheckDesc(dbg[LbE].pool, res.d) /\ DebugEnqueueForwards(dbg[LbE], res.d)
    /\ cyc.before[2][1] <= res.d.offset
    /\ DbgFreeList(dbg[LbE], res.rid) = cyc.before


(***************************************************************************)
(* The debug wrapper on a channel whose peer is unconstrained: the calls   *)
(* of SpecDebug, and dequeues in which the deq of the wrapped queue        *)
(* returns OK with a descriptor the peer has chosen. debug_dequeue runs    *)
(* before the bounds check of cleanq_dequeue                               *)
(* (queue_interface.c, cleanq_dequeue).                                    *)
(***************************************************************************)
\* the buffers a peer may deliver: two that enqueue offers, one that
\* overlaps two free ranges, and one that ends beyond the region
DpShapes == {<<2, 2>>, <<4, 4>>, <<1, 3>>, <<6, 4>>}
\* and a buffer of a region of the peer, which no register on this side
\* has announced
DpDescInputs(p) ==
    {Desc(r.id, sh[1], sh[2], 0, sh[2], 0) : r \in PoolRegions(p), sh \in DpShapes}
        \cup {Desc(9, 2, 2, 0, 2, 0)}

\* cleanq_dequeue on the wrapper when the deq of the wrapped queue returns OK
\* and the descriptor d
DpDequeue(d) ==
    LET w == dbg[LbE]
        r == DbgDoDequeue(w, d, ERR_OK)
    IN  /\ nops < DbgMaxOps /\ ~ w.fault /\ DbgBlocksLeft(w)
        /\ dbg' = [dbg EXCEPT ![LbE] = r.w]
        /\ deqOk' = IF r.err = ERR_OK THEN deqOk (+) BagOf(d, 1) ELSE deqOk
        /\ res' = Call("dequeue", r.err, d, NoCap, d.rid)
        /\ nops' = nops + 1
        /\ cyc' = RoundTrip("peer", d, r.err, DbgFreeList(w, d.rid), <<>>,
                            DbgFreeList(r.w, d.rid))
        /\ UNCHANGED <<pool, lq, enqOk, ff, ipc>>

DpNext ==
    \/ \E cap \in DbgCaps : DbgRegister(cap)
    \/ \E rid \in DbgRidInputs(dbg[LbE]) : DbgDeregister(rid)
    \/ \E d \in DbgDescInputs(dbg[LbE].pool) : DbgEnqueue(d)
    \/ DbgDequeue
    \/ \E d \in DpDescInputs(dbg[LbE].pool) : DpDequeue(d)

SpecDebugPeer == DbgInit /\ [][DpNext]_vars

\* C33 witness: a region of length 8 whose free list was the one range
\* <<0, 8>>; the peer's descriptor <<6, 4>> was dequeued, and the list is
\* now <<6, 4>>, <<0, 8>>
C33_Witness ==
    /\ res.op = "dequeue" /\ cyc.stage = "peer"
    /\ cyc.before = << <<0, 8>> >>
    /\ cyc.after = << <<6, 4>>, <<0, 8>> >>
    /\ ~ dbg[LbE].fault
    /\ \E region \in DbgRegions(dbg[LbE]) :
          /\ dbg[LbE].lists[region].length = 8
          /\ ~ dbg[LbE].lists[region].not_consistent
          /\ ~ DbgListWellFormed(dbg[LbE], region)

\* the step is a cleanq_deregister on the wrapper that reaches
\* debug_deregister: the pool of the wrapper knows the rid
DbgDeregisterCall ==
    /\ nops' = nops + 1 /\ res'.op = "deregister"
    /\ cleanq_deregister(dbg[LbE].pool, res'.rid, ERR_OK).invoked

\* the wrapper apart from the pool of its frontend
DbgWrapperState(w) == [w EXCEPT !.pool = region_pool_init(0)]

\* C34: the debug wrapper's deregister(rid) forwards to the inner queue only
\* if the region's free list is exactly the one node {0, region.length}; in
\* every other case, an empty free list (whole region in flight) included, it
\* returns REGION_DESTROY and leaves the wrapper's state unchanged; for an
\* rid the wrapper does not know it returns INVALID_REGION_ID.
C34_DeregisterPrecondition ==
    [][DbgDeregisterCall =>
         LET w      == dbg[LbE]
             region == find_region(w, res'.rid)
         IN  IF region = NULL
             THEN res'.err = ERR_INVALID_REGION_ID /\ DbgWrapperState(dbg'[LbE]) = DbgWrapperState(w)
             ELSE IF DbgFreeList(w, res'.rid) = << <<0, w.lists[region].length>> >>
             THEN res'.err = ERR_OK /\ find_region(dbg'[LbE], res'.rid) # region
             ELSE /\ res'.err = ERR_REGION_DESTROY
                  /\ DbgWrapperState(dbg'[LbE]) = DbgWrapperState(w)]_vars

\* C34 witness: deregister of a region whose one buffer, the whole region,
\* is in flight: debug_deregister has read through region->buffers == NULL
C34_Witness ==
    /\ res.op = "deregister"
    /\ dbg[LbE].fault
    /\ \E region \in DbgRegions(dbg[LbE]) :
          /\ dbg[LbE].lists[region].rid = res.rid
          /\ dbg[LbE].lists[region].buffers = NULL
    /\ \E d \in BagToSet(enqOk) :
          d.rid = res.rid /\ d.offset = 0 /\ d.length = 8 /\ ~ BagIn(d, deqOk)

(***************************************************************************)
(* Specification SpecDestroy: a queue of one of the four backends, as its  *)
(* create function leaves it, under register, deregister and               *)
(* cleanq_destroy. cyc holds the queue: its backend, its function table    *)
(* q->f, and what cleanq_destroy has done to it.                           *)
(***************************************************************************)
\* a function pointer of the table that no create has assigned: the queue
\* is allocated with calloc
NULLFN == "NULL"
FnEntries == {"enq", "deq", "reg", "dereg", "notify", "ctrl", "destroy"}

\* the function table when create returns OK
loopback_queue_create_f ==
    [enq |-> "loopback_enqueue", deq |-> "loopback_dequeue", reg |-> "loopback_register",
     dereg |-> "loopback_deregister", ctrl |-> "loopback_control",
     notify |-> "loopback_notify", destroy |-> "loopback_destroy"]
cleanq_ffq_create_f ==
    [enq |-> "ff_enqueue", deq |-> "ff_dequeue", reg |-> "ff_register",
     dereg |-> "ff_deregister", notify |-> "ff_notify", ctrl |-> "ff_control",
     destroy |-> "ff_destroy"]
cleanq_ipcq_create_f ==
    [enq |-> "ipcq_enqueue", deq |-> "ipcq_dequeue", reg |-> "ipcq_register",
     dereg |-> "ipcq_deregister", notify |-> "ipcq_notify", ctrl |-> "ipcq_control",
     destroy |-> NULLFN]
cleanq_debugq_create_f ==
    [reg |-> "debug_register", dereg |-> "debug_deregister", ctrl |-> "debug_control",
     notify |-> "debug_notify", enq |-> "debug_enqueue", deq |-> "debug_dequeue",
     destroy |-> "debug_destroy"]

DsBackends == {"loopback", "ff", "ipc", "debug"}
DsCreate(backend) ==
    [backend |-> backend,
     f |-> CASE backend = "loopback" -> loopback_queue_create_f
             [] backend = "ff"       -> cleanq_ffq_create_f
             [] backend = "ipc"      -> cleanq_ipcq_create_f
             [] backend = "debug"    -> cleanq_debugq_create_f,
     pool_freed |-> FALSE, destroyed |-> "no", regions_left |-> 0]

\* region_pool_destroy: every region left is removed, then the table and the
\* pool are freed: [pool, err]
RECURSIVE RegionPoolDestroyFrom(_, _)
RegionPoolDestroyFrom(p, i) ==
    IF i = p.size THEN [pool |-> p, err |-> ERR_OK]
    ELSE IF p.pool[i] = NULLREGION THEN RegionPoolDestroyFrom(p, i + 1)
    ELSE LET r == region_pool_remove_region(p, p.pool[i].id)
         IN  IF err_is_fail(r.err) THEN [pool |-> r.pool, err |-> r.err]
             ELSE RegionPoolDestroyFrom(r.pool, i + 1)
region_pool_destroy(p) ==
    IF p.num_regions = 0 THEN [pool |-> p, err |-> ERR_OK]
    ELSE RegionPoolDestroyFrom(p, 0)

\* cleanq_destroy: [q, pool, err]; the call through a function pointer that
\* is NULL faults (err is "none")
cleanq_destroy(q, p) ==
    LET r  == region_pool_destroy(p)
        q1 == [q EXCEPT !.pool_freed = TRUE, !.regions_left = p.num_regions]
    IN  IF err_is_fail(r.err) THEN [q |-> q, pool |-> r.pool, err |-> r.err]
        ELSE IF q.f.destroy = NULLFN
        THEN [q |-> [q1 EXCEPT !.destroyed = "fault"], pool |-> r.pool, err |-> "none"]
        ELSE [q |-> [q1 EXCEPT !.destroyed = q.f.destroy], pool |-> r.pool, err |-> ERR_OK]

DsInit ==
    \E ro \in RegionOffsets, backend \in DsBackends :
        /\ cyc = DsCreate(backend)
        /\ pool = [e \in Endpoints |-> region_pool_init(ro)]
        /\ lq = loopback_queue_create
        /\ enqOk = EmptyBag
        /\ deqOk = EmptyBag
        /\ res = NoCall
        /\ nops = 0
        /\ ff = NoQueue /\ ipc = NoQueue /\ dbg = NoQueue

\* cleanq_register (the reg of the backend returns OK)
DsRegister(cap) ==
    LET r == cleanq_register(pool[LbE], cap, ERR_OK)
    IN  /\ nops < MaxOps /\ cyc.destroyed = "no"
        /\ pool' = [pool EXCEPT ![LbE] = r.pool]
        /\ res' = Call("register", r.err, ZeroDesc, cap, r.rid)
        /\ nops' = nops + 1
        /\ UNCHANGED <<cyc, lq, enqOk, deqOk, ff, ipc, dbg>>

\* cleanq_deregister (the dereg of the backend returns OK)
DsDeregister(rid) ==
    LET r == cleanq_deregister(pool[LbE], rid, ERR_OK)
    IN  /\ nops < MaxOps /\ cyc.destroyed = "no"
        /\ pool' = [pool EXCEPT ![LbE] = r.pool]
        /\ res' = Call("deregister", r.err, ZeroDesc, NoCap, rid)
        /\ nops' = nops + 1
        /\ UNCHANGED <<cyc, lq, enqOk, deqOk, ff, ipc, dbg>>

\* cleanq_destroy
DsDestroy ==
    LET r == cleanq_destroy(cyc, pool[LbE])
    IN  /\ cyc.destroyed = "no"
        /\ cyc' = r.q
        /\ pool' = [pool EXCEPT ![LbE] = r.pool]
        /\ res' = Call("destroy", r.err, ZeroDesc, NoCap, 0)
        /\ nops' = nops + 1
        /\ UNCHANGED <<lq, enqOk, deqOk, ff, ipc, dbg>>

DsNext ==
    \/ \E cap \in PoolCaps : DsRegister(cap)
    \/ \E r \in PoolRegions(pool[LbE]) : DsDeregister(r.id)
    \/ DsDestroy

SpecDestroy == DsInit /\ [][DsNext]_vars

\* the destroy function of each backend
DsDestroyOf(backend) ==
    CASE backend = "loopback" -> "loopback_destroy"
      [] backend = "ff"       -> "ff_destroy"
      [] backend = "ipc"      -> "ipcq_destroy"
      [] backend = "debug"    -> "debug_destroy"

\* C35: for a queue created by any backend (FF, IPC, loopback, debug) every
\* entry of the function table (enq, deq, reg, dereg, notify, ctrl,
\* destroy) is set when create returns OK, so cleanq_destroy first releases
\* the region pool, regions still registered included, and then invokes that
\* backend's destroy function.
C35_DestroyReachesBackend ==
    /\ DOMAIN cyc.f = FnEntries
    /\ \A entry \in FnEntries : cyc.f[entry] # NULLFN
    /\ res.op = "destroy" =>
          /\ res.err = ERR_OK
          /\ cyc.pool_freed /\ PoolRegions(pool[LbE]) = {}
          /\ cyc.destroyed = DsDestroyOf(cyc.backend)

\* C35 witness: cleanq_destroy of an IPC queue with a region still
\* registered has released the pool and called q->f.destroy, which is NULL
C35_Witness ==
    /\ res.op = "destroy"
    /\ cyc.backend = "ipc"
    /\ cyc.regions_left > 0 /\ cyc.pool_freed
    /\ cyc.f.destroy = NULLFN
    /\ cyc.destroyed = "fault"

\* the statement of C35 for the backends other than IPC
DsOthersDestroyed ==
    cyc.backend # "ipc" =>
        /\ \A entry \in FnEntries : cyc.f[entry] # NULLFN
        /\ res.op = "destroy" =>
              /\ res.err = ERR_OK
              /\ cyc.pool_freed /\ PoolRegions(pool[LbE]) = {}
              /\ cyc.destroyed = DsDestroyOf(cyc.backend)

(***************************************************************************)
(* The debug wrapper on a queue that may refuse a register: the calls of   *)
(* SpecDebug, and registers the wrapped queue answers with QUEUE_FULL, as  *)
(* ff_register does when the ring is full.                                 *)
(***************************************************************************)
\* cleanq_register on the wrapper when the reg of the wrapped queue returns
\* QUEUE_FULL
DrRegisterRefused(cap) ==
    LET r == DbgDoRegister(dbg[LbE], cap, ERR_QUEUE_FULL)
    IN  /\ nops < DbgMaxOps /\ ~ dbg[LbE].fault /\ DbgBlocksLeft(dbg[LbE])
        /\ dbg' = [dbg EXCEPT ![LbE] = r.w]
        /\ res' = Call("register", r.err, ZeroDesc, cap, r.rid)
        /\ nops' = nops + 1
        /\ cyc' = NoRoundTrip
        /\ UNCHANGED <<pool, lq, enqOk, deqOk, ff, ipc>>

DrNext ==
    \/ \E cap \in DbgCaps : DbgRegister(cap)
    \/ \E rid \in DbgRidInputs(dbg[LbE]) : DbgDeregister(rid)
    \/ \E d \in DbgDescInputs(dbg[LbE].pool) : DbgEnqueue(d)
    \/ DbgDequeue
    \/ \E cap \in DbgCaps : DrRegisterRefused(cap)

SpecDebugReg == DbgInit /\ [][DrNext]_vars

\* the step is a cleanq_register or cleanq_deregister that returns an error
DrFailed(op) ==
    /\ nops' = nops + 1 /\ res'.op = op
    /\ ~ dbg'[LbE].fault
    /\ err_is_fail(res'.err)

\* C36: whenever cleanq_register returns an error (e.g. the backend's
\* register returns QUEUE_FULL) the queue's region pool contains the same
\* regions as before the call, so that a retry with the same capability can
\* succeed; and whenever cleanq_deregister returns an error (e.g.
\* REGION_DESTROY from the debug wrapper) the region is still registered in
\* the pool.
C36_FailedCallKeepsPool ==
    [][/\ DrFailed("register")
            => /\ PoolRegions(dbg'[LbE].pool) = PoolRegions(dbg[LbE].pool)
               /\ ~ err_is_fail(region_pool_add_region(dbg'[LbE].pool, res'.cap).err)
       /\ DrFailed("deregister")
            => PoolRegions(dbg'[LbE].pool) = PoolRegions(dbg[LbE].pool)]_vars

\* C36 witness: a register has returned QUEUE_FULL, its region is in the
\* pool of the queue, and the pool refuses the capability when it is
\* offered again
C36_Witness ==
    /\ res.op = "register" /\ res.err = ERR_QUEUE_FULL
    /\ \E r \in PoolRegions(dbg[LbE].pool) :
          r.id = res.rid /\ r.base_addr = res.cap.paddr /\ r.len = res.cap.len
    /\ find_region(dbg[LbE], res.rid) = NULL
    /\ region_pool_add_region(dbg[LbE].pool, res.cap).err = ERR_INVALID_REGION_ARGS

\* a deregister has returned REGION_DESTROY and the region is no longer in
\* the pool of the queue, while the lists of the wrapper still hold it
DrDeregisterLosesRegion ==
    /\ res.op = "deregister" /\ res.err = ERR_REGION_DESTROY
    /\ \A r \in PoolRegions(dbg[LbE].pool) : r.id # res.rid
    /\ find_region(dbg[LbE], res.rid) # NULL

\* the step is a cleanq_dequeue on the wrapper
DbgDequeueCall == nops' = nops + 1 /\ res'.op = "dequeue" /\ ~ dbg'[LbE].fault

\* C37: whenever cleanq_dequeue (directly on a backend or through the debug
\* wrapper) returns an error such as INVALID_BUFFER_ARGS or
\* BUFFER_NOT_IN_USE, no descriptor has been removed from the channel, so
\* that every descriptor enqueued is returned by some dequeue with OK or is
\* still in the channel.
C37_FailedDequeueConsumesNothing ==
    [][(DbgDequeueCall /\ err_is_fail(res'.err))
          => /\ LoopbackContent(lq') = LoopbackContent(lq)
             /\ lq'.num_ele = lq.num_ele]_vars

\* C37 witness: a dequeue has returned INVALID_BUFFER_ARGS for a descriptor
\* that was enqueued with OK, and the descriptor is neither in the queue nor
\* among those returned with OK
C37_Witness ==
    /\ res.op = "dequeue" /\ res.err = ERR_INVALID_BUFFER_ARGS
    /\ BagIn(res.d, enqOk)
    /\ ~ BagIn(res.d, deqOk)
    /\ lq.num_ele = 0

\* the same for BUFFER_NOT_IN_USE from debug_dequeue
DbgNotInUseConsumed ==
    /\ res.op = "dequeue" /\ res.err = ERR_BUFFER_NOT_IN_USE
    /\ BagIn(res.d, enqOk)
    /\ ~ BagIn(res.d, deqOk)
    /\ lq.num_ele = 0

(***************************************************************************)
(* Specification SpecIPCCreate: cleanq_ipcq_create of the two endpoints    *)
(* step by step (shm_open, ftruncate, mmap, memset, the acknowledgement    *)
(* words), interleaved with each other and with the enqueues and dequeues  *)
(* of an endpoint whose create has returned. The endpoint whose exclusive  *)
(* shm_open succeeds is the creator.                                       *)
(***************************************************************************)
\* number of enqueue and dequeue calls explored
IcMaxCalls == 3

IcStart ==
    [\* the shared memory object: "none", "created" (of size 0) or "sized"
     obj   |-> "none",
     \* the argument clear of the creator
     clear |-> FALSE,
     mem   |-> IpcMemCreated,
     q     |-> [e \in Endpoints |-> cleanq_ipcq_create(e = "creator")],
     \* where cleanq_ipcq_create stands: before shm_open ("start"),
     \* ftruncate ("size"), mmap ("map"), memset ("clear"), the writes of
     \* the acknowledgement words ("acks"); returned ("ready"); "fault"
     pc    |-> [e \in Endpoints |-> "start"],
     res   |-> [e \in Endpoints |-> [op |-> "none", err |-> ERR_OK, d |-> ZeroDesc, seq |-> 0]],
     \* ghost: the descriptors ipcq_enqueue has sent, by sequence number
     exp   |-> [e \in Endpoints |-> <<>>],
     n     |-> 0]

IcInit ==
    \E clear \in BOOLEAN :
        /\ ipc = [IcStart EXCEPT !.clear = clear]
        /\ pool = [e \in Endpoints |-> region_pool_init(0)]
        /\ lq = loopback_queue_create
        /\ enqOk = EmptyBag
        /\ deqOk = EmptyBag
        /\ res = NoCall
        /\ nops = 0
        /\ cyc = NoCycle
        /\ ff = NoQueue /\ dbg = NoQueue

\* shm_open: with O_EXCL for the first endpoint, without for the second
IcOpen(e) ==
    /\ ipc.pc[e] = "start"
    /\ IF e = "creator"
       THEN IwStep([ipc EXCEPT !.obj = "created", !.pc[e] = "size"])
       ELSE /\ ipc.obj # "none"
            /\ IwStep([ipc EXCEPT !.pc[e] = "map"])

\* ftruncate of the creator: the object gets its size, filled with zeroes
IcSize ==
    /\ ipc.pc["creator"] = "size"
    /\ IwStep([ipc EXCEPT !.obj = "sized", !.pc["creator"] = "map"])

\* mmap; the joiner's clear is false
IcMap(e) ==
    /\ ipc.pc[e] = "map"
    /\ IwStep([ipc EXCEPT !.pc[e] = IF e = "creator" /\ ipc.clear THEN "clear" ELSE "acks"])

\* memset(buf, 0, IPCQ_MEM_SIZE) of the creator
IcClear ==
    /\ ipc.pc["creator"] = "clear"
    /\ IwStep([ipc EXCEPT !.mem = IpcMemCreated, !.pc["creator"] = "acks"])

\* tx_seq_ack->value = 0 and rx_seq_ack->value = 0, the sequence numbers and
\* the return; the access to a mapping of an object that has no size yet
\* faults
IcAcks(e) ==
    /\ ipc.pc[e] = "acks"
    /\ IF ipc.obj # "sized" THEN IwStep([ipc EXCEPT !.pc[e] = "fault"])
       ELSE IwStep([ipc EXCEPT !.mem[ipc.q[e].tx_seq_ack] = 0,
                               !.mem[ipc.q[e].rx_seq_ack] = 0,
                               !.pc[e] = "ready"])

\* ipcq_enqueue of an endpoint whose create has returned
IcEnqueue(e, v) ==
    LET r == ipcq_enqueue_internal(ipc.q[e], ipc.mem, IwBuf(v), 0)
    IN  /\ ipc.pc[e] = "ready" /\ ipc.n < IcMaxCalls
        /\ IwStep([ipc EXCEPT !.q[e] = r.q, !.mem = r.mem, !.n = @ + 1,
                              !.exp[e] = IF r.err = ERR_OK THEN Append(@, IwBuf(v)) ELSE @,
                              !.res[e] = [op |-> "enqueue", err |-> r.err, d |-> IwBuf(v),
                                          seq |-> ipc.q[e].tx_seq]])

\* ipcq_dequeue of an endpoint whose create has returned
IcDequeue(e, oob) ==
    LET r == ipcq_dequeue(ipc.q[e], ipc.mem, pool[e], oob)
    IN  /\ ipc.pc[e] = "ready" /\ ipc.n < IcMaxCalls
        /\ IF ipcq_get_rx_desc_tail(ipc.q[e]) >= IPCQ_MEM_MSGS /\ oob.fault
           THEN IwStep([ipc EXCEPT !.pc[e] = "fault", !.n = @ + 1])
           ELSE IwStep([ipc EXCEPT !.q[e] = r.q, !.mem = r.mem, !.n = @ + 1,
                                   !.res[e] = [op |-> "dequeue", err |-> r.err, d |-> r.d,
                                               seq |-> ipc.q[e].rx_seq]])

IcNext ==
    \E e \in Endpoints :
        \/ IcOpen(e)
        \/ IcSize
        \/ IcMap(e)
        \/ IcClear
        \/ IcAcks(e)
        \/ \E v \in 1..2 : IcEnqueue(e, v)
        \/ \E oob \in IpcOobReads : IcDequeue(e, oob)

SpecIPCCreate == IcInit /\ [][IcNext]_vars

\* the last dequeue of e returned a descriptor its peer has sent under that
\* sequence number
IcDequeuedSent(e) ==
    (ipc.res[e].op = "dequeue" /\ ipc.res[e].err = ERR_OK)
        => /\ ipc.res[e].seq <= Len(ipc.exp[Peer(e)])
           /\ ipc.res[e].d = ipc.exp[Peer(e)][ipc.res[e].seq]

\* every descriptor e has sent lies in its slot of e's tx ring (fewer are
\* sent than the ring has slots)
IcSentInRing(e) ==
    \A s \in 1..Len(ipc.exp[e]) :
        ipc.mem[ipc.q[e].tx_descs + (s % ipc.q[e].slots)] = IpcDesc(s, ipc.exp[e][s], 0)

\* C38: under every interleaving of the creator's create steps (open, size,
\* map, optional zeroing, slot/ack initialisation) with the joiner's create
\* and its first enqueues and dequeues, no endpoint ever dequeues a
\* descriptor its peer did not enqueue, and no descriptor whose enqueue
\* returned OK is wiped by the other endpoint's initialisation.
C38_CreationRaceFree ==
    \A e \in Endpoints : IcDequeuedSent(e) /\ IcSentInRing(e)

\* C38 witness: the joiner's create has returned and its enqueue has
\* returned OK while the creator stood before its memset; the creator has
\* then cleared the mapping, and the slot of the joiner's descriptor holds
\* zeroes
C38_Witness ==
    /\ ipc.clear
    /\ ipc.pc["creator"] \in {"acks", "ready"}
    /\ ipc.pc["joiner"] = "ready"
    /\ ipc.res["joiner"].op = "enqueue" /\ ipc.res["joiner"].err = ERR_OK
    /\ Len(ipc.exp["joiner"]) = 1
    /\ ipc.mem[ipc.q["joiner"].tx_descs + 1] = ZeroIpcDesc

\* without the memset (clear = false) no descriptor is wiped, and the
\* joiner, whose rx ring lies in the mapping, dequeues what the creator sent
IcNoClearKeeps ==
    /\ ~ ipc.clear => \A e \in Endpoints : IcSentInRing(e)
    /\ IcDequeuedSent("joiner")
    /\ IcSentInRing("creator")

\* the step is a dequeue in which the wrapped queue returns a buffer of an
\* rid the wrapper holds no node for
DpUnknownRegion ==
    /\ nops' = nops + 1 /\ cyc'.stage = "peer"
    /\ find_region(dbg[LbE], res'.rid) = NULL

\* C39: when a debug-wrapper dequeue returns a buffer of an rid the wrapper
\* does not know, it appends a new region node flagged not-consistent with
\* length offset+length, and the free-range lists (every node's offset and
\* length) of all regions already tracked are unchanged, also when the
\* wrapper already tracks one or more regions.
C39_SynthesisIsolated ==
    [][DpUnknownRegion =>
          LET w == dbg[LbE]
              n == find_region(dbg'[LbE], res'.rid)
          IN  /\ ~ dbg'[LbE].fault
              /\ n # NULL
              /\ dbg'[LbE].lists[n].not_consistent
              /\ dbg'[LbE].lists[n].length = res'.d.offset + res'.d.length
              /\ dbg'[LbE].lists[n].next = NULL
              /\ \A l \in DbgRegions(w) :
                    DbgFreeList(dbg'[LbE], w.lists[l].rid) = DbgFreeList(w, w.lists[l].rid)]_vars

\* C39 witness: the wrapper tracks a region whose free list began with the
\* range {2, 6}; after the dequeue of a buffer of an unknown rid the new node
\* is appended and that range reads {0, 6}
C39_Witness ==
    /\ res.op = "dequeue" /\ cyc.stage = "peer"
    /\ cyc.before = <<>>
    /\ cyc.after = << <<0, 4>> >>
    /\ \E l \in DbgRegions(dbg[LbE]) :
          /\ dbg[LbE].regions = l
          /\ dbg[LbE].lists[l].rid # res.rid
          /\ BagIn(Desc(dbg[LbE].lists[l].rid, 0, 2, 0, 2, 0), enqOk)
          /\ DbgFreeList(dbg[LbE], dbg[LbE].lists[l].rid) = << <<0, 6>> >>

\* the same with no region tracked: the node is appended and nothing else
\* changes
DpFirstRegionSynthesised ==
    [][(DpUnknownRegion /\ dbg[LbE].regions = NULL) =>
          LET n == find_region(dbg'[LbE], res'.rid)
          IN  /\ ~ dbg'[LbE].fault
              /\ n # NULL
              /\ dbg'[LbE].lists[n].not_consistent
              /\ dbg'[LbE].lists[n].length = res'.d.offset + res'.d.length]_vars

\* the regions endpoint e has registered itself and not deregistered: those
\* of its pool that lie at the address of its own capabilities
FfOwnRegions(e) ==
    {r \in PoolRegions(pool[e]) : \E cap \in FfCaps(e) : r.base_addr = cap.paddr}

\* endpoint e has processed every command its peer has sent: no call of the
\* peer is in progress, nothing is published on the ring e receives from,
\* and e stands in no receive
FfProcessedAll(e) ==
    /\ ff.pc[Peer(e)].op = "idle"
    /\ ff.pc[e].op = "idle"
    /\ ff.pub[FfRxRing(e)] = <<>>
    /\ ~ ffq_impl_can_recv(ff, ff.rxq[e])

\* C40: on an FF or IPC channel where both endpoints may register regions of
\* their own, once an endpoint has processed every command its peer sent,
\* its pool contains every region the peer currently has registered, under
\* the same id and with the same length, and none the peer has
\* deregistered; a mirrored registration is never dropped because the
\* receiver's own region occupies the table slot of the incoming id.
C40_PoolsConverge ==
    \A e \in Endpoints :
        FfProcessedAll(e) =>
            /\ FfOwnRegions(Peer(e)) \subseteq PoolRegions(pool[e])
            /\ \A r \in PoolRegions(pool[e]) :
                  (\E cap \in FfCaps(Peer(e)) : r.base_addr = cap.paddr)
                      => r \in FfOwnRegions(Peer(e))

\* C40 witness: both endpoints have registered a region of their own under
\* id 1; the joiner has received the creator's register command, found the
\* slot of id 1 taken by its own region and dropped the command; nothing
\* is left to process and the joiner's pool lacks the creator's region
C40_Witness ==
    /\ FfProcessedAll("joiner")
    /\ ff.hcmd["joiner"].kind = "register"
    /\ ff.hcmd["joiner"].err = ERR_INVALID_REGION_ID
    /\ \E r \in FfOwnRegions("creator") :
          /\ r.id = ff.hcmd["joiner"].rid
          /\ r \notin PoolRegions(pool["joiner"])
          /\ \E own \in FfOwnRegions("joiner") : own.id = r.id

=============================================================================
